---- MODULE Spec2Model ----
(***************************************************************************)
(* Model of the fuel-route planner (core/services/fuel_plan.py and the     *)
(* request handler core/views.py).                                         *)
(*                                                                         *)
(* Numbers.  The code computes on floats; the model computes on exact      *)
(* integers and rationals:                                                 *)
(*   - a distance (route_miles, total_miles, max_range_miles, a gap) is an *)
(*     integer number of micro-miles (1e-6 mile), so the code's 1e-6 mile  *)
(*     tolerance is one unit (GapEps);                                     *)
(*   - mpg is a rational <<num, den>> with den > 0, miles per gallon;      *)
(*   - a quantity of fuel (tank_gal, need_gal, buy_gal, fuel, burn) is the *)
(*     code's gallons times mpg, i.e. the micro-miles it drives: the code  *)
(*     divides every such quantity by the same mpg; its + and - on gallons *)
(*     are those of the numerators, and so are its min, max and > for      *)
(*     mpg > 0, while for mpg < 0 the order of the gallons is the reverse  *)
(*     of the order of the numerators (GalMin, GalMax, Recorded); mpg = 0  *)
(*     is the division by zero of line 107 (DivisionByZero);               *)
(*   - a price is an integer number of 1e-4 dollars (the DecimalField has  *)
(*     4 decimal places); the terminal node's float("inf") is Inf;         *)
(*   - a cost (cost, total_cost) before rounding is fuel * price, i.e. the *)
(*     code's dollars times 1e10 * mpg;                                    *)
(*   - round(x, k) is RoundDiv of the exact value, in units of 10^-k.      *)
(***************************************************************************)
EXTENDS Integers, Sequences, FiniteSets, TLC

VARIABLES
  \* min_cost_plan(stations, total_miles, mpg, max_range_miles)
  stations, total_miles, mpg, max_range_miles,
  pc,      \* position in min_cost_plan
  nodes,   \* line 108: the node list
  i,       \* the loop index of lines 112 and 120 (1-based)
  st,      \* fuel, total_cost, plan of lines 116-118
  ret,     \* the returned pair [plan, err]; <<>> is None, <<x>> is x
  \* decode_polyline(polyline_str), then cumulative_miles of its result
  polyline_str,  \* the character codes ord(c) of the string
  index,         \* characters consumed (the code's 0-based index)
  lat, lng,      \* the running sums, in 1e-5 degree
  shift, result,
  coords,        \* the points <<lat, lng>>, in 1e-5 degree
  dpc,           \* position in decode_polyline
  cum,           \* cumulative_miles(coords)
  \* RoutePlanView.post, from the decoded route on (poly is coords)
  catalog,         \* FuelStop rows: id -> [lat, lon, price]
  corridor_miles,
  rpc,             \* position in post
  vertex,          \* gather_candidates: the loop index of line 61 (1-based)
  next_sample,
  candidates,      \* the dict of line 58: its keys (ids) in insertion order
  samples,         \* the queries made: [vertex, qs]
  enriched,        \* attach_route_miles' result
  start_fs,
  responses,       \* the responses of the requests served so far
  \* RoutePlanView.post, up to the decoded route; <<>> is None, <<x>> is x
  data,            \* the request data
  origin,          \* [name, lat, lon] (o_name, o_lat, o_lon)
  destination,     \* [name, lat, lon] (d_name, d_lat, d_lon)
  route,           \* compute_route_osrm's result
  geo_cache,       \* django cache, keys "nominatim:...": key -> value
  route_cache,     \* django cache, keys "osrm:...": key -> value
  calls,           \* the calls made to geocode_us and to the two services
  \* requests running together
  procs,           \* the state of each request
  world            \* what the two services answer

planVars == <<stations, total_miles, mpg, max_range_miles, pc, nodes, i, st, ret>>
decVars == <<polyline_str, index, lat, lng, shift, result, coords, dpc, cum>>
reqVars == <<catalog, corridor_miles, rpc, vertex, next_sample, candidates,
             samples, enriched, start_fs, responses>>
postVars == <<data, origin, destination, route, geo_cache, route_cache, calls>>
concVars == <<procs, world>>
vars == <<planVars, decVars, reqVars, postVars, concVars>>

\* ------------------------------------------------------------------ bounds
MaxStations == 2
MaxMile == 5
MaxRange == 2
MaxLen == 5
MaxCoord == 2
MaxVertices == 3
MaxCatalog == 2
MaxRequests == 2
MaxProcs == 2

\* ------------------------------------------------------- program constants
\* fuel_plan.py:113, the feasibility tolerance 1e-6 mile, in micro-miles
GapEps == 1
\* fuel_plan.py:144, the recording threshold 1e-6 gallon, in micro-gallons
BuyEps == 1
\* fuel_plan.py:109, "fs": None
None == 0
\* fuel_plan.py:109, float("inf"): above every price of the catalog
Inf == 1000000000

Prices == {20000, 30000}
MpgValues == {<<1, 1>>, <<1, 40>>}

Min(a, b) == IF a <= b THEN a ELSE b
Max(a, b) == IF a >= b THEN a ELSE b

\* Python's round(n / d, k) in units of 10^-k, d > 0: nearest, ties to even.
RoundDiv(n, d) ==
  LET q == n \div d
      r == n % d
  IN  IF 2 * r < d THEN q
      ELSE IF 2 * r > d THEN q + 1
      ELSE IF q % 2 = 0 THEN q ELSE q + 1

\* round(miles, 3): micro-miles to 1e-3 mile
RoundMiles(d) == RoundDiv(d, 1000)
\* round(gallons, 4): fuel f is f * 1e-6 / mpg gallons, to 1e-4 gallon
RoundGallons(f, m) ==
  IF m[1] > 0 THEN RoundDiv(f * m[2], 100 * m[1])
  ELSE RoundDiv(0 - f * m[2], 0 - 100 * m[1])
\* round(dollars, 4): cost c is c * 1e-10 / mpg dollars, to 1e-4 dollar
RoundDollars(c, m) ==
  IF m[1] > 0 THEN RoundDiv(c * m[2], 1000000 * m[1])
  ELSE RoundDiv(0 - c * m[2], 0 - 1000000 * m[1])

\* --------------------------------------------------- min_cost_plan: nodes
\* Mutant of InsertByRouteMiles: x goes before the entries of equal key.
RECURSIVE InsertByRouteMiles_BeforeEqual(_, _)
InsertByRouteMiles_BeforeEqual(x, s) ==
  IF s = <<>> THEN <<x>>
  ELSE IF s[Len(s)].route_miles < x.route_miles THEN Append(s, x)
  ELSE Append(InsertByRouteMiles_BeforeEqual(x, SubSeq(s, 1, Len(s) - 1)), s[Len(s)])

\* list.sort(key=route_miles): stable insertion of x into a sorted list
RECURSIVE InsertByRouteMiles(_, _)
InsertByRouteMiles(x, s) ==
  IF s = <<>> THEN <<x>>
  ELSE IF s[Len(s)].route_miles <= x.route_miles THEN Append(s, x)
  ELSE Append(InsertByRouteMiles(x, SubSeq(s, 1, Len(s) - 1)), s[Len(s)])

RECURSIVE SortByRouteMiles(_)
SortByRouteMiles(s) ==
  IF s = <<>> THEN <<>>
  ELSE InsertByRouteMiles(s[Len(s)], SortByRouteMiles(SubSeq(s, 1, Len(s) - 1)))

TerminalNode(total) ==
  [fs |-> None, route_miles |-> total, price |-> Inf]

\* Mutant of WithinRoute: the stations beyond the destination are kept.
WithinRoute_Any(n, total) == n.route_miles >= 0

\* line 108
WithinRoute(n, total) == n.route_miles <= total

\* lines 108-110
BuildNodes(ss, total) ==
  SortByRouteMiles(
    Append(SelectSeq(ss, LAMBDA n : WithinRoute(n, total)),
           TerminalNode(total)))

\* ------------------------------------------- min_cost_plan: feasibility
Gap(ns, h) == ns[h + 1].route_miles - ns[h].route_miles

\* Mutant of GapTooLong: the 1e-6 tolerance forgotten.
GapTooLong_NoEps(ns, h, range) == Gap(ns, h) > range

\* line 113
GapTooLong(ns, h, range) ==
  Gap(ns, h) > range + GapEps

\* Mutant of GapError: the gap measured to the end of the node list.
GapError_ToEnd(ns, h) ==
  [error |-> "NO_FEASIBLE_PLAN",
   gap_miles |-> ns[Len(ns)].route_miles - ns[h].route_miles]

\* line 114
GapError(ns, h) == [error |-> "NO_FEASIBLE_PLAN", gap_miles |-> Gap(ns, h)]

\* --------------------------------------------- min_cost_plan: purchases
\* line 107: tank_gal = max_range_miles / mpg, as fuel (gallons times mpg)
TankGal(range) == range

\* Mutant of Lookahead: an equally priced node is taken as the target.
RECURSIVE Lookahead_OrEqual(_, _, _, _)
Lookahead_OrEqual(ns, h, k, range) ==
  IF k > Len(ns) THEN None
  ELSE IF ns[k].route_miles - ns[h].route_miles > range THEN None
  ELSE IF ns[k].price <= ns[h].price THEN k
  ELSE Lookahead_OrEqual(ns, h, k + 1, range)

\* lines 125-131: the lookahead from node h, scanning k upwards
RECURSIVE Lookahead(_, _, _, _)
Lookahead(ns, h, k, range) ==
  IF k > Len(ns) THEN None
  ELSE IF ns[k].route_miles - ns[h].route_miles > range THEN None
  ELSE IF ns[k].price < ns[h].price THEN k
  ELSE Lookahead(ns, h, k + 1, range)

\* Mutant of TargetMiles: always fill up, cheaper stations ahead ignored.
TargetMiles_AlwaysFill(ns, h, total, range) ==
  Min(total, ns[h].route_miles + range)

\* line 133
TargetMiles(ns, h, total, range) ==
  LET j == Lookahead(ns, h, h + 1, range)
  IN  IF j # None THEN ns[j].route_miles
      ELSE Min(total, ns[h].route_miles + range)

\* min and max of two quantities of fuel as the code takes them, on gallons
GalMin(a, b, m) == IF m[1] > 0 THEN Min(a, b) ELSE Max(a, b)
GalMax(a, b, m) == IF m[1] > 0 THEN Max(a, b) ELSE Min(a, b)

\* Mutant of BuyGal: the fuel on board is not subtracted.
BuyGal_IgnoresFuel(ns, h, fuel, total, range, m) ==
  GalMax(0, GalMin(range, TargetMiles(ns, h, total, range) - ns[h].route_miles, m), m)

\* lines 134-135
BuyGal(ns, h, fuel, total, range, m) ==
  LET tank_gal == TankGal(range)
      need_gal == TargetMiles(ns, h, total, range)
                    - ns[h].route_miles
  IN  GalMax(0, GalMin(tank_gal, need_gal, m) - fuel, m)

\* Mutant of Burn: the fuel for the way to the end of the route is burned.
Burn_ToEnd(ns, h) == ns[Len(ns)].route_miles - ns[h].route_miles

\* line 141
Burn(ns, h) == ns[h + 1].route_miles - ns[h].route_miles

\* Mutant of Recorded: every real station gets a plan entry.
Recorded_EveryStation(here, buy_gal, m) == here.fs # None

\* line 144: buy_gal > 1e-6 and the node is a real station
Recorded(here, buy_gal, m) ==
  /\ here.fs # None
  /\ IF m[1] > 0 THEN buy_gal * m[2] > BuyEps * m[1]
     ELSE buy_gal * m[2] < BuyEps * m[1]

\* lines 146-157 (name, city, state, lat, lon are copies of fs's fields)
PlanEntry(here, buy_gal, cost, m) ==
  [id |-> here.fs,
   price |-> here.price,
   route_miles |-> RoundMiles(here.route_miles),
   gallons_bought |-> RoundGallons(buy_gal, m),
   cost |-> RoundDollars(cost, m)]

\* Mutant of LoopInit: the vehicle starts with fuel on board.
LoopInit_SomeFuel == [fuel |-> 1, total_cost |-> 0, plan |-> <<>>, inf_cost |-> FALSE,
                      log |-> <<>>]

\* The loop state of lines 116-118; inf_cost records that a cost term was
\* computed from the infinite price (in Python the term is inf or nan).
LoopInit == [fuel |-> 0, total_cost |-> 0, plan |-> <<>>, inf_cost |-> FALSE,
             log |-> <<>>]

\* lines 121-157: one iteration of the purchase loop at node h
PurchaseStep(s, ns, h, total, m, range) ==
  LET here == ns[h]
      buy_gal == BuyGal(ns, h, s.fuel, total, range, m)
      cost == IF here.price = Inf THEN 0 ELSE buy_gal * here.price
      burn == Burn(ns, h)
  IN  [fuel |-> s.fuel + buy_gal - burn,
       total_cost |-> s.total_cost + cost,
       plan |-> IF Recorded(here, buy_gal, m)
                THEN Append(s.plan, PlanEntry(here, buy_gal, cost, m))
                ELSE s.plan,
       inf_cost |-> s.inf_cost \/ here.price = Inf,
       log |-> Append(s.log, [node |-> h, before |-> s.fuel,
                               buy_gal |-> buy_gal, cost |-> cost,
                               after |-> s.fuel + buy_gal - burn])]

\* lines 159-163
PlanResult(s, m, range) ==
  [stops |-> s.plan,
   total_cost |-> RoundDollars(s.total_cost, m),
   tank_gallons_capacity |-> RoundGallons(TankGal(range), m)]

\* lines 112-114 as a function: the lowest i whose gap is too long, or None
RECURSIVE FirstGap(_, _, _)
FirstGap(ns, k, range) ==
  IF k >= Len(ns) THEN None
  ELSE IF GapTooLong(ns, k, range) THEN k
  ELSE FirstGap(ns, k + 1, range)

\* lines 120-157 as a function
RECURSIVE RunLoop(_, _, _, _, _, _)
RunLoop(s, ns, k, total, m, range) ==
  IF k >= Len(ns) THEN s
  ELSE RunLoop(PurchaseStep(s, ns, k, total, m, range), ns, k + 1, total, m, range)

\* line 107: max_range_miles / mpg raises ZeroDivisionError
DivisionByZero(m) == m[1] = 0

\* min_cost_plan as a function of its arguments (lines 106-163), mpg # 0
MinCostPlan(ss, total, m, range) ==
  LET ns == BuildNodes(ss, total)
      g == FirstGap(ns, 1, range)
  IN  IF g # None
      THEN [plan |-> <<>>, err |-> <<GapError(ns, g)>>]
      ELSE [plan |-> <<PlanResult(RunLoop(LoopInit, ns, 1, total, m, range), m, range)>>,
            err |-> <<>>]

\* ------------------------------------- min_cost_plan as a state machine
StationLists ==
  UNION {[1..n -> [route_miles : 0..MaxMile, price : Prices]] : n \in 0..MaxStations}

\* station k of the list is FuelStop id k
WithIds(l) ==
  [k \in 1..Len(l) |-> [fs |-> k, route_miles |-> l[k].route_miles, price |-> l[k].price]]

PlanIdle ==
  /\ pc = "start" /\ nodes = <<>> /\ i = 0 /\ st = LoopInit
  /\ ret = [plan |-> <<>>, err |-> <<>>]

PlanInit ==
  /\ \E l \in StationLists : stations = WithIds(l)
  /\ total_miles \in 0..MaxMile
  /\ mpg \in MpgValues
  /\ max_range_miles \in 0..MaxRange
  /\ PlanIdle

\* lines 107-110
PlanBuild ==
  /\ pc = "start"
  /\ ~DivisionByZero(mpg)
  /\ nodes' = BuildNodes(stations, total_miles)
  /\ i' = 1
  /\ pc' = "check"
  /\ UNCHANGED <<stations, total_miles, mpg, max_range_miles, st, ret, decVars, reqVars, postVars>>
  /\ UNCHANGED concVars

\* lines 112-114: the gap after node i is too long
PlanCheckFail ==
  /\ pc = "check" /\ i < Len(nodes)
  /\ GapTooLong(nodes, i, max_range_miles)
  /\ ret' = [plan |-> <<>>, err |-> <<GapError(nodes, i)>>]
  /\ pc' = "done"
  /\ UNCHANGED <<stations, total_miles, mpg, max_range_miles, nodes, i, st, decVars, reqVars, postVars>>
  /\ UNCHANGED concVars

\* lines 112-113: the gap after node i is within range
PlanCheckPass ==
  /\ pc = "check" /\ i < Len(nodes)
  /\ ~GapTooLong(nodes, i, max_range_miles)
  /\ i' = i + 1
  /\ UNCHANGED <<stations, total_miles, mpg, max_range_miles, pc, nodes, st, ret, decVars, reqVars, postVars>>
  /\ UNCHANGED concVars

\* lines 116-118: the feasibility loop is over
PlanCheckDone ==
  /\ pc = "check" /\ i >= Len(nodes)
  /\ st' = LoopInit
  /\ i' = 1
  /\ pc' = "buy"
  /\ UNCHANGED <<stations, total_miles, mpg, max_range_miles, nodes, ret, decVars, reqVars, postVars>>
  /\ UNCHANGED concVars

\* lines 120-157: one iteration of the purchase loop
PlanBuy ==
  /\ pc = "buy" /\ i < Len(nodes)
  /\ st' = PurchaseStep(st, nodes, i, total_miles, mpg, max_range_miles)
  /\ i' = i + 1
  /\ UNCHANGED <<stations, total_miles, mpg, max_range_miles, pc, nodes, ret, decVars, reqVars, postVars>>
  /\ UNCHANGED concVars

\* lines 159-163
PlanReturn ==
  /\ pc = "buy" /\ i >= Len(nodes)
  /\ ret' = [plan |-> <<PlanResult(st, mpg, max_range_miles)>>, err |-> <<>>]
  /\ pc' = "done"
  /\ UNCHANGED <<stations, total_miles, mpg, max_range_miles, nodes, i, st, decVars, reqVars, postVars>>
  /\ UNCHANGED concVars

PlanNext ==
  \/ PlanBuild
  \/ PlanCheckFail
  \/ PlanCheckPass
  \/ PlanCheckDone
  \/ PlanBuy
  \/ PlanReturn

\* ------------------------------------------------------ decode_polyline
\* Python integers are unbounded, so no width is modelled.
RECURSIVE Pow2(_)
Pow2(n) == IF n = 0 THEN 1 ELSE 2 * Pow2(n - 1)

\* line 21: b = ord(c) - 63
ByteOf(c) == c - 63

\* line 23: result | ((b & 0x1f) << shift); the 5-bit fields do not overlap
OrShifted(res, b, sh) == res + (b % 32) * Pow2(sh)

\* Mutant of ZigZagDecode: an odd result negated instead of complemented.
ZigZagDecode_Negate(res) ==
  IF res % 2 = 1 THEN 0 - (res \div 2) ELSE res \div 2

\* line 27: ~(result >> 1) if (result & 1) else (result >> 1)
ZigZagDecode(res) ==
  IF res % 2 = 1 THEN 0 - (res \div 2) - 1 ELSE res \div 2

\* line 25
LastOfGroup(b) == b < 32

\* The characters '?', '@', 'A' (b = 0, 1, 2: last of a group) and '_', '`'
\* (b = 32, 33: more follows).
Chars == {63, 64, 65, 95, 96}

Strings == UNION {[1..n -> Chars] : n \in 0..MaxLen}

DecodeIdle ==
  /\ index = 0 /\ lat = 0 /\ lng = 0 /\ shift = 0 /\ result = 0
  /\ coords = <<>> /\ dpc = "while" /\ cum = <<>>

\* line 18, condition true; line 19
DecodeBegin ==
  /\ dpc = "while" /\ index < Len(polyline_str)
  /\ shift' = 0 /\ result' = 0
  /\ dpc' = "lat"
  /\ UNCHANGED <<polyline_str, index, lat, lng, coords, cum, planVars, reqVars, postVars>>
  /\ UNCHANGED concVars

\* lines 21-24, and 25-30 when the group ends
DecodeLat ==
  /\ dpc = "lat" /\ index < Len(polyline_str)
  /\ LET b == ByteOf(polyline_str[index + 1])
          r == OrShifted(result, b, shift)
     IN  /\ index' = index + 1
         /\ IF LastOfGroup(b)
            THEN /\ lat' = lat + ZigZagDecode(r)
                 /\ shift' = 0 /\ result' = 0
                 /\ dpc' = "lng"
            ELSE /\ result' = r
                 /\ shift' = shift + 5
                 /\ UNCHANGED <<lat, dpc>>
  /\ UNCHANGED <<polyline_str, lng, coords, cum, planVars, reqVars, postVars>>
  /\ UNCHANGED concVars

\* lines 32-35, and 36-41 when the group ends
DecodeLng ==
  /\ dpc = "lng" /\ index < Len(polyline_str)
  /\ LET b == ByteOf(polyline_str[index + 1])
          r == OrShifted(result, b, shift)
     IN  /\ index' = index + 1
         /\ IF LastOfGroup(b)
            THEN /\ lng' = lng + ZigZagDecode(r)
                 /\ coords' = Append(coords, <<lat, lng + ZigZagDecode(r)>>)
                 /\ dpc' = "while"
            ELSE UNCHANGED <<lng, coords, dpc>>
         /\ result' = r
         /\ shift' = shift + 5
  /\ UNCHANGED <<polyline_str, lat, cum, planVars, reqVars, postVars>>
  /\ UNCHANGED concVars

\* Mutant of DecodeRaise: the points decoded so far are returned.
DecodeRaise_ReturnsPartial ==
  /\ dpc \in {"lat", "lng"} /\ index >= Len(polyline_str)
  /\ dpc' = "returned"
  /\ UNCHANGED <<polyline_str, index, lat, lng, shift, result, coords, cum, planVars, reqVars, postVars>>
  /\ UNCHANGED concVars

\* lines 21 and 32: polyline_str[index] with index = len raises IndexError
DecodeRaise ==
  /\ dpc \in {"lat", "lng"} /\ index >= Len(polyline_str)
  /\ dpc' = "IndexError"
  /\ UNCHANGED <<polyline_str, index, lat, lng, shift, result, coords, cum, planVars, reqVars, postVars>>
  /\ UNCHANGED concVars

\* line 18, condition false; line 42
DecodeReturn ==
  /\ dpc = "while" /\ index >= Len(polyline_str)
  /\ dpc' = "returned"
  /\ UNCHANGED <<polyline_str, index, lat, lng, shift, result, coords, cum, planVars, reqVars, postVars>>
  /\ UNCHANGED concVars

\* --------------------------------------------------------- cumulative_miles
Abs(x) == IF x < 0 THEN 0 - x ELSE x

\* haversine_miles(lat1, lon1, lat2, lon2), abstracted: the great-circle
\* distance is replaced by the taxicab distance of the two points on the
\* coordinate grid.  Like the code's value it is symmetric, never negative
\* and 0 between equal points.
HaversineMiles(p, q) == Abs(q[1] - p[1]) + Abs(q[2] - p[2])

\* lines 45-48
RECURSIVE CumulativeMiles(_)
CumulativeMiles(poly) ==
  IF Len(poly) <= 1 THEN <<0>>
  ELSE LET c == CumulativeMiles(SubSeq(poly, 1, Len(poly) - 1))
       IN  Append(c, c[Len(c)] + HaversineMiles(poly[Len(poly) - 1], poly[Len(poly)]))

\* cumulative_miles applied to the decoded points
Cumulate ==
  /\ dpc = "returned"
  /\ cum' = CumulativeMiles(coords)
  /\ dpc' = "cum"
  /\ UNCHANGED <<polyline_str, index, lat, lng, shift, result, coords, planVars, reqVars, postVars>>
  /\ UNCHANGED concVars

DecodeNext ==
  \/ DecodeBegin
  \/ DecodeLat
  \/ DecodeLng
  \/ DecodeRaise
  \/ DecodeReturn
  \/ Cumulate

\* ------------------------------------------------------------ the catalog
\* A point is <<lat, lon>>.  In the request pipeline the coordinates are
\* measured on a flat map in the unit of the distances (1e-6 mile), so that
\* radius / 69.0 degrees of latitude is radius units, and the longitude
\* factor max(0.1, cos(lat)) of line 52 is 1.
\* lines 50-53
Box(p, radius_miles) ==
  [lat_min |-> p[1] - radius_miles, lat_max |-> p[1] + radius_miles,
   lon_min |-> p[2] - radius_miles, lon_max |-> p[2] + radius_miles]

\* lines 68-69 and 101-102: the filter and the exclude of the query
Matches(fs, box) ==
  /\ fs.lat >= box.lat_min /\ fs.lat <= box.lat_max
  /\ fs.lon >= box.lon_min /\ fs.lon <= box.lon_max
  /\ fs.price # None

Matching(cat, box) == {id \in DOMAIN cat : Matches(cat[id], box)}

\* lines 70 and 103, order_by("price"): the orders the database may return
\* the rows in; the order of rows of equal price is not specified.
OrderByPrice(cat, ids) ==
  {q \in [1..Cardinality(ids) -> ids] :
     /\ \A a, b \in 1..Cardinality(ids) : a # b => q[a] # q[b]
     /\ \A a, b \in 1..Cardinality(ids) : a < b => cat[q[a]].price <= cat[q[b]].price}

\* Mutant of Truncate: the rows at the end of the order.
Truncate_Tail(q, limit) == SubSeq(q, Len(q) - Min(limit, Len(q)) + 1, Len(q))

\* line 70: [:max_per_sample]
Truncate(q, limit) == SubSeq(q, 1, Min(limit, Len(q)))

\* lines 67-70: the results the query of a sample may give
SampleQuery(cat, box, limit) ==
  {Truncate(q, limit) : q \in OrderByPrice(cat, Matching(cat, box))}

\* Mutant of StartQuery: any priced row of the box.
StartQuery_AnyRow(cat, box) ==
  IF Matching(cat, box) = {} THEN {None} ELSE Matching(cat, box)

\* lines 100-104: the results choose_start_station may give, None if no row
StartQuery(cat, box) ==
  IF Matching(cat, box) = {} THEN {None}
  ELSE {q[1] : q \in OrderByPrice(cat, Matching(cat, box))}

\* ---------------------------------------------------- gather_candidates
\* gather_candidates' parameters sample_every_miles (default 20.0) and
\* max_per_sample (default 25), and choose_start_station's radius_miles
\* (25.0 in post), scaled down to the model's routes and catalogs.
SampleEveryMiles == 2
MaxPerSample == 1
StartRadiusMiles == 2
\* line 62: 1e-6
SampleEps == 1

\* Mutant of DictUpdate: a list that takes every row of every sample.
DictUpdate_Append(keys, qs) == keys \o qs

\* Mutant of SkipVertex: no tolerance.
SkipVertex_NoEps(m, next) == m < next

\* line 62: the vertex at cumulative distance m is passed over
SkipVertex(m, next) == m + SampleEps < next

\* lines 75-76: the loop is left after this sample
LastSample(next, total) == next > total

\* lines 72-73: candidates[fs.id] = fs for the rows of qs, in order
RECURSIVE DictUpdate(_, _)
DictUpdate(keys, qs) ==
  IF qs = <<>> THEN keys
  ELSE DictUpdate(IF \E k \in 1..Len(keys) : keys[k] = qs[1]
                  THEN keys ELSE Append(keys, qs[1]),
                  Tail(qs))

\* ---------------------------------------------------- attach_route_miles
\* line 84: best_d = 1e18, above every distance; a number above every
\* distance of the map stands for it
FarAway == 2000000000

\* Mutant of Closer: a vertex at the same distance replaces the best one.
Closer_OrEqual(d, best_d) == d <= best_d

\* line 87
Closer(d, best_d) == d < best_d

\* lines 83-89: the scan over the vertices k..Len(poly), from the best
\* [i, d] found so far; the indices are 1-based
RECURSIVE BestScan(_, _, _, _)
BestScan(fs, poly, k, best) ==
  IF k > Len(poly) THEN best
  ELSE LET d == HaversineMiles(<<fs.lat, fs.lon>>, poly[k])
       IN  BestScan(fs, poly, k + 1,
                    IF Closer(d, best.d) THEN [i |-> k, d |-> d] ELSE best)

\* lines 83-89: best_i and best_d
Best(fs, poly) == BestScan(fs, poly, 1, [i |-> 1, d |-> FarAway])

BestIndex(fs, poly) == Best(fs, poly).i

\* lines 90-94
Enrich(cat, id, poly, c) ==
  [fs |-> id,
   route_miles |-> c[BestIndex(cat[id], poly)],
   offroute_miles |-> Best(cat[id], poly).d]

\* Mutant of AttachRouteMiles: the entries are left in the order of stops.
AttachRouteMiles_Unsorted(cat, stops, poly, c) ==
  [k \in 1..Len(stops) |-> Enrich(cat, stops[k], poly, c)]

\* lines 80-96
AttachRouteMiles(cat, stops, poly, c) ==
  SortByRouteMiles([k \in 1..Len(stops) |-> Enrich(cat, stops[k], poly, c)])

\* ------------------------------------------------ the django cache
\* A cache is a set of entries [key, value].
\* cache.get(key): None (<<>>) where there is no entry
CacheGet(c, key) ==
  IF \E en \in c : en.key = key
  THEN <<(CHOOSE en \in c : en.key = key).value>>
  ELSE <<>>

\* cache.set(key, value, timeout); the timeouts (a day, a week) are beyond
\* the requests modelled
CacheSet(c, key, value) ==
  {en \in c : en.key # key} \cup {[key |-> key, value |-> value]}

\* ------------------------------------------------------------ geocode_us
\* A text is [word, style]: the same word written plainly, in capitals or
\* with blanks around it.
\* osm_api.py line 16: text.strip().lower()
StripLower(text) == [word |-> text.word, style |-> "plain"]

\* osm_api.py lines 12-13, on the model's map
USA_LAT_MIN == 0
USA_LAT_MAX == 4
USA_LON_MIN == 0
USA_LON_MAX == 2

\* osm_api.py line 39
InUsa(p) ==
  /\ USA_LAT_MIN <= p.lat /\ p.lat <= USA_LAT_MAX
  /\ USA_LON_MIN <= p.lon /\ p.lon <= USA_LON_MAX

\* osm_api.py lines 28-43: what geocode_us makes of the service's answer;
\* [raised, out]
GeocodeAnswer(text, reply) ==
  IF reply.status = 429 THEN [raised |-> FALSE, out |-> <<>>]
  ELSE IF reply.status # 200 THEN [raised |-> TRUE, out |-> <<>>]
  ELSE IF reply.data = <<>> THEN [raised |-> FALSE, out |-> <<>>]
  ELSE IF ~InUsa(reply.data[1]) THEN [raised |-> FALSE, out |-> <<>>]
  ELSE [raised |-> FALSE,
        out |-> <<[lat |-> reply.data[1].lat, lon |-> reply.data[1].lon,
                   name |-> IF reply.data[1].display_name # <<>>
                            THEN reply.data[1].display_name[1]
                            ELSE text]>>]

\* osm_api.py lines 15-45.  reply is the service's answer [status, data],
\* used if the cache has no entry.  The result is [raised, out, cache,
\* asked]: raised for raise_for_status(), out the returned value (<<>> is
\* None), cache the cache afterwards, asked whether the service was called.
GeocodeUs(c, text, reply) ==
  LET key == StripLower(text)
      cached == CacheGet(c, key)
      ans == GeocodeAnswer(text, reply)
  IN  IF cached # <<>>
      THEN [raised |-> FALSE, out |-> cached, cache |-> c, asked |-> FALSE]
      ELSE [raised |-> ans.raised, out |-> ans.out, asked |-> TRUE,
            cache |-> IF ans.out # <<>> THEN CacheSet(c, key, ans.out[1]) ELSE c]

\* ---------------------------------------------------- compute_route_osrm
\* the 1e-5 degree of the key's format, on the model's map
KeyStep == 2

\* osrm_api.py line 17: f"{x:.5f}"
Fmt5(x) == RoundDiv(x, KeyStep)

\* osrm_api.py line 17
RouteKey(o, d) == <<Fmt5(o.lat), Fmt5(o.lon), Fmt5(d.lat), Fmt5(d.lon)>>

\* osrm_api.py lines 31-47: what compute_route_osrm makes of the service's
\* answer; [raised, out]
ComputeRouteAnswer(reply) ==
  IF reply.status = 429 THEN [raised |-> FALSE, out |-> <<>>]
  ELSE IF reply.status # 200 THEN [raised |-> TRUE, out |-> <<>>]
  ELSE IF reply.routes = <<>> THEN [raised |-> FALSE, out |-> <<>>]
  ELSE IF reply.routes[1].geometry = <<>> THEN [raised |-> FALSE, out |-> <<>>]
  ELSE [raised |-> FALSE,
        out |-> <<[distanceMeters |-> reply.routes[1].distance,
                   encodedPolyline |-> reply.routes[1].geometry]>>]

\* osrm_api.py lines 12-50.  reply is the service's answer [status, routes],
\* a route being [distance, geometry].
ComputeRouteOsrm(c, o, d, reply) ==
  LET key == RouteKey(o, d)
      cached == CacheGet(c, key)
      ans == ComputeRouteAnswer(reply)
  IN  IF cached # <<>>
      THEN [raised |-> FALSE, out |-> cached, cache |-> c, asked |-> FALSE]
      ELSE [raised |-> ans.raised, out |-> ans.out, asked |-> TRUE,
            cache |-> IF ans.out # <<>> THEN CacheSet(c, key, ans.out[1]) ELSE c]

\* ------------------------------------------------------ RoutePlanView.post
\* Mutant of StationsOf: the start station is put after the candidates.
StationsOf_StartLast(cat, start, enr) ==
  [k \in 1..Len(enr) |->
     [fs |-> enr[k].fs, route_miles |-> enr[k].route_miles,
      price |-> cat[enr[k].fs].price]]
    \o <<[fs |-> start, route_miles |-> 0, price |-> cat[start].price]>>

\* views.py lines 74-86
StationsOf(cat, start, enr) ==
  <<[fs |-> start, route_miles |-> 0, price |-> cat[start].price]>>
    \o [k \in 1..Len(enr) |->
          [fs |-> enr[k].fs, route_miles |-> enr[k].route_miles,
           price |-> cat[enr[k].fs].price]]

\* views.py lines 97-118; provided is the route provider's record, for
\* distance_meters, duration and encoded_polyline
PlanResponse(plan, total, m, range, o, d, r) ==
  [status |-> 200,
   origin |-> o,
   destination |-> d,
   provided |-> r,
   distance_miles |-> RoundMiles(total),
   tank_capacity_gallons |-> plan.tank_gallons_capacity,
   gallons_used_total |-> RoundGallons(total, m),
   stops |-> plan.stops,
   total_money_spent |-> plan.total_cost]

\* views.py lines 72 and 95
ErrorResponse(err) == [status |-> 400, body |-> err]

\* an exception that post does not catch
ServerError(exc) == [status |-> 500, body |-> [exception |-> exc]]

RequestIdle ==
  /\ rpc = "gather" /\ vertex = 0 /\ next_sample = 0 /\ candidates = <<>>
  /\ samples = <<>> /\ enriched = <<>> /\ start_fs = None

\* fuel_plan.py lines 56-59
GatherBegin ==
  /\ rpc = "gather"
  /\ cum' = CumulativeMiles(coords)
  /\ next_sample' = 0
  /\ candidates' = <<>>
  /\ vertex' = 1
  /\ rpc' = "for"
  /\ UNCHANGED <<catalog, corridor_miles, samples, enriched, start_fs, responses>>
  /\ UNCHANGED <<polyline_str, index, lat, lng, shift, result, coords, dpc, planVars>>
  /\ UNCHANGED postVars
  /\ UNCHANGED concVars

\* fuel_plan.py lines 61-63: the vertex is not sampled
GatherSkip ==
  /\ rpc = "for" /\ vertex <= Len(coords)
  /\ SkipVertex(cum[vertex], next_sample)
  /\ vertex' = vertex + 1
  /\ UNCHANGED <<catalog, corridor_miles, rpc, next_sample, candidates, samples,
                 enriched, start_fs, responses>>
  /\ UNCHANGED <<decVars, planVars>>
  /\ UNCHANGED postVars
  /\ UNCHANGED concVars

\* fuel_plan.py lines 61-76: the vertex is sampled
GatherSample ==
  /\ rpc = "for" /\ vertex <= Len(coords)
  /\ ~SkipVertex(cum[vertex], next_sample)
  /\ next_sample' = next_sample + SampleEveryMiles
  /\ \E qs \in SampleQuery(catalog, Box(coords[vertex], corridor_miles), MaxPerSample) :
       /\ candidates' = DictUpdate(candidates, qs)
       /\ samples' = Append(samples, [vertex |-> vertex, qs |-> qs])
  /\ IF LastSample(next_sample', cum[Len(cum)])
     THEN rpc' = "attach" /\ UNCHANGED vertex
     ELSE vertex' = vertex + 1 /\ UNCHANGED rpc
  /\ UNCHANGED <<catalog, corridor_miles, enriched, start_fs, responses>>
  /\ UNCHANGED <<decVars, planVars>>
  /\ UNCHANGED postVars
  /\ UNCHANGED concVars

\* Mutant of GatherEnd: the rows without a price are given one.
GatherEnd_FillsPrices ==
  /\ rpc = "for" /\ vertex > Len(coords)
  /\ rpc' = "attach"
  /\ catalog' = [id \in DOMAIN catalog |->
                   IF catalog[id].price = None
                   THEN [catalog[id] EXCEPT !.price = 20000]
                   ELSE catalog[id]]
  /\ UNCHANGED <<corridor_miles, vertex, next_sample, candidates, samples,
                 enriched, start_fs, responses>>
  /\ UNCHANGED <<decVars, planVars>>
  /\ UNCHANGED postVars
  /\ UNCHANGED concVars

\* fuel_plan.py lines 61 and 78: the loop has run through every vertex
GatherEnd ==
  /\ rpc = "for" /\ vertex > Len(coords)
  /\ rpc' = "attach"
  /\ UNCHANGED <<catalog, corridor_miles, vertex, next_sample, candidates, samples,
                 enriched, start_fs, responses>>
  /\ UNCHANGED <<decVars, planVars>>
  /\ UNCHANGED postVars
  /\ UNCHANGED concVars

\* views.py lines 66-67
Attach ==
  /\ rpc = "attach"
  /\ enriched' = AttachRouteMiles(catalog, candidates, coords, cum)
  /\ total_miles' = cum[Len(cum)]
  /\ rpc' = "start"
  /\ UNCHANGED <<catalog, corridor_miles, vertex, next_sample, candidates, samples,
                 start_fs, responses>>
  /\ UNCHANGED <<stations, mpg, max_range_miles, pc, nodes, i, st, ret, decVars>>
  /\ UNCHANGED postVars
  /\ UNCHANGED concVars

\* views.py lines 70-72: no priced station near the origin
NoStartStation ==
  /\ rpc = "start"
  /\ None \in StartQuery(catalog, Box(<<origin[1].lat, origin[1].lon>>, StartRadiusMiles))
  /\ start_fs' = None
  /\ responses' = Append(responses,
                          ErrorResponse([error |-> "NO_START_FUEL_STATION_NEAR_ORIGIN"]))
  /\ rpc' = "done"
  /\ UNCHANGED <<catalog, corridor_miles, vertex, next_sample, candidates, samples,
                 enriched>>
  /\ UNCHANGED <<decVars, planVars>>
  /\ UNCHANGED postVars
  /\ UNCHANGED concVars

\* views.py lines 70-86
ChooseStart ==
  /\ rpc = "start"
  /\ \E fs \in StartQuery(catalog, Box(<<origin[1].lat, origin[1].lon>>, StartRadiusMiles)) :
       /\ fs # None
       /\ start_fs' = fs
       /\ stations' = StationsOf(catalog, fs, enriched)
  /\ rpc' = "plan"
  /\ UNCHANGED <<catalog, corridor_miles, vertex, next_sample, candidates, samples,
                 enriched, responses>>
  /\ UNCHANGED <<total_miles, mpg, max_range_miles, pc, nodes, i, st, ret, decVars>>
  /\ UNCHANGED postVars
  /\ UNCHANGED concVars

\* views.py lines 88-118
Plan ==
  /\ rpc = "plan"
  /\ IF DivisionByZero(mpg)
     THEN /\ UNCHANGED ret
          /\ responses' = Append(responses, ServerError("ZeroDivisionError"))
     ELSE /\ ret' = MinCostPlan(stations, total_miles, mpg, max_range_miles)
          /\ responses' =
               Append(responses,
                      IF ret'.err # <<>> THEN ErrorResponse(ret'.err[1])
                      ELSE PlanResponse(ret'.plan[1], total_miles, mpg, max_range_miles,
                                        origin[1], destination[1], route))
  /\ rpc' = "done"
  /\ UNCHANGED <<catalog, corridor_miles, vertex, next_sample, candidates, samples,
                 enriched, start_fs>>
  /\ UNCHANGED <<stations, total_miles, mpg, max_range_miles, pc, nodes, i, st, decVars>>
  /\ UNCHANGED postVars
  /\ UNCHANGED concVars

\* the next request, with the same arguments and the same catalog
NextRequest ==
  /\ rpc = "done" /\ Len(responses) < MaxRequests
  /\ rpc' = "gather" /\ vertex' = 0 /\ next_sample' = 0 /\ candidates' = <<>>
  /\ samples' = <<>> /\ enriched' = <<>> /\ start_fs' = None
  /\ stations' = <<>> /\ total_miles' = 0 /\ ret' = [plan |-> <<>>, err |-> <<>>]
  /\ cum' = <<>>
  /\ UNCHANGED <<catalog, corridor_miles, responses, mpg, max_range_miles, pc, nodes,
                 i, st>>
  /\ UNCHANGED <<polyline_str, index, lat, lng, shift, result, coords, dpc>>
  /\ UNCHANGED postVars
  /\ UNCHANGED concVars

RequestNext ==
  \/ GatherBegin
  \/ GatherSkip
  \/ GatherSample
  \/ GatherEnd
  \/ Attach
  \/ NoStartStation
  \/ ChooseStart
  \/ Plan
  \/ NextRequest

\* one request, from the decoded route on
VehicleNext ==
  \/ GatherBegin
  \/ GatherSkip
  \/ GatherSample
  \/ GatherEnd
  \/ Attach
  \/ NoStartStation
  \/ ChooseStart
  \/ Plan

\* the vehicles: 1 and 2 miles per gallon
VehicleMpg == {<<1, 1>>, <<2, 1>>}

\* the floats that the validation accepts: negative, zero and positive
\* (mpg -1/40, 0 and 1: at 1/40 the rounding to 4 decimals keeps a purchase
\* of one unit apart from zero)
AcceptedMiles == {0 - 2, 0, 2}
AcceptedMpg == {<<0 - 1, 40>>, <<0, 1>>, <<1, 1>>}

\* the places of the map: two units apart, so that a leg of the route can be
\* as long as two sampling intervals
Grid == {2 * x : x \in 0..MaxCoord}

\* the decoded routes: 2..MaxVertices points on the line lon = 0
Polys == UNION {[1..n -> {<<x, 0>> : x \in Grid}] : n \in 2..MaxVertices}

\* the catalogs: MaxCatalog rows, on the route's line or beside it, the price
\* None where it is NULL
Catalogs ==
  [1..MaxCatalog -> [lat : Grid, lon : {0, 2}, price : Prices \cup {None}]]

\* ----------------------------------------- RoutePlanView.post, lines 16-62
\* serializers.py lines 18-19
HasStart(d) == d.start # <<>> \/ d.start_latlng # <<>>
\* serializers.py lines 20-21
HasEnd(d) == d.end # <<>> \/ d.end_latlng # <<>>

\* Mutant of UsesLatLng: the text is preferred where both forms are given.
UsesLatLng_TextFirst(latlng, text) == latlng # <<>> /\ text = <<>>

\* views.py lines 27 and 40: "start_latlng" in data and data["start_latlng"];
\* a validated LatLng holds lat and lon, so it is true where it is present
UsesLatLng(latlng, text) == latlng # <<>>

\* Mutant of BadPolyline: a single point is accepted.
BadPolyline_Empty(poly) == Len(poly) < 1

\* views.py line 61
BadPolyline(poly) == Len(poly) < 2

\* serializers.py lines 19 and 21: the ValidationError, as rendered by
\* is_valid(raise_exception=True)
ValidationResponse(msg) == [status |-> 400, body |-> [non_field_errors |-> msg]]

\* views.py lines 16-22 and serializers.py lines 17-22
Validate ==
  /\ rpc = "validate"
  /\ IF ~HasStart(data)
     THEN /\ responses' = Append(responses, ValidationResponse("Provide start or start_latlng"))
          /\ rpc' = "done"
          /\ UNCHANGED <<corridor_miles, max_range_miles, mpg>>
     ELSE IF ~HasEnd(data)
     THEN /\ responses' = Append(responses, ValidationResponse("Provide end or end_latlng"))
          /\ rpc' = "done"
          /\ UNCHANGED <<corridor_miles, max_range_miles, mpg>>
     ELSE /\ corridor_miles' = data.corridor_miles
          /\ max_range_miles' = data.max_range_miles
          /\ mpg' = data.mpg
          /\ rpc' = "o_latlon"
          /\ UNCHANGED responses
  /\ UNCHANGED <<catalog, vertex, next_sample, candidates, samples, enriched, start_fs>>
  /\ UNCHANGED <<stations, total_miles, pc, nodes, i, st, ret, decVars, postVars>>
  /\ UNCHANGED concVars

\* views.py lines 27-29
StartLatLng ==
  /\ rpc = "o_latlon"
  /\ UsesLatLng(data.start_latlng, data.start)
  /\ origin' = <<[name |-> "start_latlng", lat |-> data.start_latlng[1].lat,
                  lon |-> data.start_latlng[1].lon]>>
  /\ rpc' = "d_latlon"
  /\ UNCHANGED <<catalog, corridor_miles, vertex, next_sample, candidates, samples,
                 enriched, start_fs, responses>>
  /\ UNCHANGED <<data, destination, route, geo_cache, route_cache, calls>>
  /\ UNCHANGED <<planVars, decVars>>
  /\ UNCHANGED concVars

\* views.py lines 30-38, with geocode_us
StartGeocode(reply) ==
  /\ rpc = "o_latlon"
  /\ ~UsesLatLng(data.start_latlng, data.start)
  /\ LET g == GeocodeUs(geo_cache, data.start[1], reply)
     IN  /\ geo_cache' = g.cache
         /\ calls' = Append(calls, [fn |-> "geocode_us", arg |-> "start",
                                    reply |-> IF g.asked THEN <<reply>> ELSE <<>>])
         /\ IF g.raised
            THEN /\ responses' = Append(responses, ServerError("HTTPError"))
                 /\ rpc' = "done"
                 /\ UNCHANGED origin
            ELSE IF g.out = <<>>
            THEN /\ responses' = Append(responses,
                      ErrorResponse([error |-> "START_NOT_FOUND_OR_NOT_US"]))
                 /\ rpc' = "done"
                 /\ UNCHANGED origin
            ELSE /\ origin' = g.out
                 /\ rpc' = "d_latlon"
                 /\ UNCHANGED responses
  /\ UNCHANGED <<catalog, corridor_miles, vertex, next_sample, candidates, samples,
                 enriched, start_fs>>
  /\ UNCHANGED <<data, destination, route, route_cache>>
  /\ UNCHANGED <<planVars, decVars>>
  /\ UNCHANGED concVars

\* views.py lines 40-42
EndLatLng ==
  /\ rpc = "d_latlon"
  /\ UsesLatLng(data.end_latlng, data.end)
  /\ destination' = <<[name |-> "end_latlng", lat |-> data.end_latlng[1].lat,
                       lon |-> data.end_latlng[1].lon]>>
  /\ rpc' = "route"
  /\ UNCHANGED <<catalog, corridor_miles, vertex, next_sample, candidates, samples,
                 enriched, start_fs, responses>>
  /\ UNCHANGED <<data, origin, route, geo_cache, route_cache, calls>>
  /\ UNCHANGED <<planVars, decVars>>
  /\ UNCHANGED concVars

\* views.py lines 43-50, with geocode_us
EndGeocode(reply) ==
  /\ rpc = "d_latlon"
  /\ ~UsesLatLng(data.end_latlng, data.end)
  /\ LET g == GeocodeUs(geo_cache, data.end[1], reply)
     IN  /\ geo_cache' = g.cache
         /\ calls' = Append(calls, [fn |-> "geocode_us", arg |-> "end",
                                    reply |-> IF g.asked THEN <<reply>> ELSE <<>>])
         /\ IF g.raised
            THEN /\ responses' = Append(responses, ServerError("HTTPError"))
                 /\ rpc' = "done"
                 /\ UNCHANGED destination
            ELSE IF g.out = <<>>
            THEN /\ responses' = Append(responses,
                      ErrorResponse([error |-> "END_NOT_FOUND_OR_NOT_US"]))
                 /\ rpc' = "done"
                 /\ UNCHANGED destination
            ELSE /\ destination' = g.out
                 /\ rpc' = "route"
                 /\ UNCHANGED responses
  /\ UNCHANGED <<catalog, corridor_miles, vertex, next_sample, candidates, samples,
                 enriched, start_fs>>
  /\ UNCHANGED <<data, origin, route, route_cache>>
  /\ UNCHANGED <<planVars, decVars>>
  /\ UNCHANGED concVars

\* views.py lines 55-60, with compute_route_osrm; on a route, decode_polyline
\* is entered (fuel_plan.py lines 14-17)
ComputeRoute(reply) ==
  /\ rpc = "route"
  /\ LET g == ComputeRouteOsrm(route_cache, origin[1], destination[1], reply)
     IN  /\ route_cache' = g.cache
         /\ calls' = Append(calls, [fn |-> "compute_route_osrm", arg |-> "route",
                                    reply |-> IF g.asked THEN <<reply>> ELSE <<>>])
         /\ IF g.raised
            THEN /\ responses' = Append(responses, ServerError("HTTPError"))
                 /\ rpc' = "done"
                 /\ UNCHANGED <<route, decVars>>
            ELSE IF g.out = <<>>
            THEN /\ responses' = Append(responses,
                      ErrorResponse([error |-> "ROUTE_NOT_FOUND_OR_RATE_LIMIT"]))
                 /\ rpc' = "done"
                 /\ UNCHANGED <<route, decVars>>
            ELSE /\ route' = g.out
                 /\ polyline_str' = g.out[1].encodedPolyline
                 /\ index' = 0 /\ lat' = 0 /\ lng' = 0 /\ shift' = 0 /\ result' = 0
                 /\ coords' = <<>>
                 /\ dpc' = "while"
                 /\ rpc' = "decode"
                 /\ UNCHANGED <<cum, responses>>
  /\ UNCHANGED <<catalog, corridor_miles, vertex, next_sample, candidates, samples,
                 enriched, start_fs>>
  /\ UNCHANGED <<data, origin, destination, geo_cache>>
  /\ UNCHANGED planVars
  /\ UNCHANGED concVars

\* views.py line 60: decode_polyline raises IndexError, which post lets through
DecodeFailed ==
  /\ rpc = "decode" /\ dpc = "IndexError"
  /\ responses' = Append(responses, ServerError("IndexError"))
  /\ rpc' = "done"
  /\ UNCHANGED <<catalog, corridor_miles, vertex, next_sample, candidates, samples,
                 enriched, start_fs>>
  /\ UNCHANGED <<planVars, decVars, postVars>>
  /\ UNCHANGED concVars

\* views.py lines 61-62
PolylineBad ==
  /\ rpc = "decode" /\ dpc = "returned"
  /\ BadPolyline(coords)
  /\ responses' = Append(responses, ErrorResponse([error |-> "BAD_ROUTE_POLYLINE"]))
  /\ rpc' = "done"
  /\ UNCHANGED <<catalog, corridor_miles, vertex, next_sample, candidates, samples,
                 enriched, start_fs>>
  /\ UNCHANGED <<planVars, decVars, postVars>>
  /\ UNCHANGED concVars

\* views.py lines 61 and 65
PolylineGood ==
  /\ rpc = "decode" /\ dpc = "returned"
  /\ ~BadPolyline(coords)
  /\ rpc' = "gather"
  /\ UNCHANGED <<catalog, corridor_miles, vertex, next_sample, candidates, samples,
                 enriched, start_fs, responses>>
  /\ UNCHANGED <<planVars, decVars, postVars>>
  /\ UNCHANGED concVars

\* ------------------------------------------- the functions as operators
\* decode_polyline, lines 20-29 and 31-38: one group read from index (the
\* characters consumed so far); [raised, value, index]
RECURSIVE ReadGroup(_, _, _, _)
ReadGroup(str, idx, sh, res) ==
  IF idx >= Len(str) THEN [raised |-> TRUE, value |-> 0, index |-> idx]
  ELSE LET b == ByteOf(str[idx + 1])
           r == OrShifted(res, b, sh)
       IN  IF LastOfGroup(b)
           THEN [raised |-> FALSE, value |-> ZigZagDecode(r), index |-> idx + 1]
           ELSE ReadGroup(str, idx + 1, sh + 5, r)

\* decode_polyline, lines 18-41: the loop from index on
RECURSIVE DecodeFrom(_, _, _, _, _)
DecodeFrom(str, idx, la, ln, pts) ==
  IF idx >= Len(str) THEN [raised |-> FALSE, coords |-> pts]
  ELSE LET g1 == ReadGroup(str, idx, 0, 0)
       IN  IF g1.raised THEN [raised |-> TRUE, coords |-> <<>>]
           ELSE LET g2 == ReadGroup(str, g1.index, 0, 0)
                IN  IF g2.raised THEN [raised |-> TRUE, coords |-> <<>>]
                    ELSE DecodeFrom(str, g2.index, la + g1.value, ln + g2.value,
                                    Append(pts, <<la + g1.value, ln + g2.value>>))

\* decode_polyline, lines 13-42; raised for the IndexError
DecodePolyline(str) == DecodeFrom(str, 0, 0, 0, <<>>)

\* gather_candidates, lines 61-76: the candidate lists the loop may end
\* with, from vertex v on
RECURSIVE GatherFrom(_, _, _, _, _, _, _)
GatherFrom(cat, poly, c, corridor, v, next, cands) ==
  IF v > Len(poly) THEN {cands}
  ELSE IF SkipVertex(c[v], next)
  THEN GatherFrom(cat, poly, c, corridor, v + 1, next, cands)
  ELSE UNION {IF LastSample(next + SampleEveryMiles, c[Len(c)])
              THEN {DictUpdate(cands, qs)}
              ELSE GatherFrom(cat, poly, c, corridor, v + 1,
                              next + SampleEveryMiles, DictUpdate(cands, qs)) :
              qs \in SampleQuery(cat, Box(poly[v], corridor), MaxPerSample)}

\* gather_candidates, lines 55-78: the lists of ids it may return
GatherCandidates(cat, poly, corridor) ==
  GatherFrom(cat, poly, CumulativeMiles(poly), corridor, 1, 0, <<>>)

\* views.py lines 70-118: the responses from the candidates on
PlanResponses(cat, o, d, r, poly, cands, range, m) ==
  LET c == CumulativeMiles(poly)
      enr == AttachRouteMiles(cat, cands, poly, c)
  IN  {IF fs = None
       THEN ErrorResponse([error |-> "NO_START_FUEL_STATION_NEAR_ORIGIN"])
       ELSE IF DivisionByZero(m) THEN ServerError("ZeroDivisionError")
       ELSE LET res == MinCostPlan(StationsOf(cat, fs, enr), c[Len(c)], m, range)
            IN  IF res.err # <<>> THEN ErrorResponse(res.err[1])
                ELSE PlanResponse(res.plan[1], c[Len(c)], m, range, o, d, <<r>>) :
       fs \in StartQuery(cat, Box(<<o.lat, o.lon>>, StartRadiusMiles))}

\* views.py lines 60-118: the responses post may give once it has the route
RouteResponses(cat, o, d, r, corridor, range, m) ==
  LET dec == DecodePolyline(r.encodedPolyline)
  IN  IF dec.raised THEN {ServerError("IndexError")}
      ELSE IF BadPolyline(dec.coords)
      THEN {ErrorResponse([error |-> "BAD_ROUTE_POLYLINE"])}
      ELSE UNION {PlanResponses(cat, o, d, r, dec.coords, cands, range, m) :
                  cands \in GatherCandidates(cat, dec.coords, corridor)}

\* ------------------------------------------------- the two services
\* Nominatim's answers: too many requests, a server error, no match, a place
\* of the map with or without display_name, a place outside USA_*
NominatimReplies ==
  {[status |-> 429, data |-> <<>>],
   [status |-> 500, data |-> <<>>],
   [status |-> 200, data |-> <<>>],
   [status |-> 200, data |-> <<[lat |-> 0, lon |-> 0, display_name |-> <<"Denver, Colorado">>]>>],
   [status |-> 200, data |-> <<[lat |-> 0, lon |-> 0, display_name |-> <<>>]>>],
   [status |-> 200, data |-> <<[lat |-> 0 - 2, lon |-> 0, display_name |-> <<"Durango, Mexico">>]>>]}

\* The geometries of the routes: one point; (0,0), (4,0); (0,0), (0,0), (2,0);
\* and a string cut off after a latitude.
RouteGeometries ==
  {<<63, 63>>, <<63, 63, 71, 63>>, <<63, 63, 63, 63, 67, 63>>, <<63, 63, 71>>}

\* OSRM's answers: too many requests, a server error, no route, a route
\* without geometry, a route
OsrmReplies ==
  {[status |-> 429, routes |-> <<>>],
   [status |-> 500, routes |-> <<>>],
   [status |-> 200, routes |-> <<>>],
   [status |-> 200, routes |-> <<[distance |-> 0, geometry |-> <<>>]>>]}
  \cup {[status |-> 200, routes |-> <<[distance |-> 6, geometry |-> g]>>] :
          g \in RouteGeometries}

\* the texts of a request
Texts == {[word |-> "denver", style |-> "plain"], [word |-> "denver", style |-> "upper"]}

\* the request data after the field validation: each of the four fields
\* given or not, the floats given or defaulted
Requests ==
  [start : {<<>>} \cup {<<t>> : t \in Texts},
   start_latlng : {<<>>, <<[lat |-> 0, lon |-> 0]>>},
   end : {<<>>, <<[word |-> "denver", style |-> "plain"]>>},
   end_latlng : {<<>>, <<[lat |-> 4, lon |-> 0]>>},
   corridor_miles : {2},
   max_range_miles : {2 * r : r \in 1..MaxRange},
   mpg : {<<1, 1>>}]

\* the caches a request may find: empty, or filled by an earlier request
GeoCaches ==
  {{}, {[key |-> [word |-> "denver", style |-> "plain"],
         value |-> [lat |-> 0, lon |-> 0, name |-> "Denver, Colorado"]]}}

RouteCaches ==
  {{}, {[key |-> <<0, 0, 2, 0>>,
         value |-> [distanceMeters |-> 6, encodedPolyline |-> <<63, 63, 71, 63>>]]}}

\* the catalogs of a whole request: MaxCatalog rows on the route's line
PostCatalogs ==
  [1..MaxCatalog -> [lat : Grid, lon : {0}, price : Prices \cup {None}]]

PostNext ==
  \/ Validate
  \/ StartLatLng
  \/ \E reply \in NominatimReplies : StartGeocode(reply)
  \/ EndLatLng
  \/ \E reply \in NominatimReplies : EndGeocode(reply)
  \/ \E reply \in OsrmReplies : ComputeRoute(reply)
  \/ DecodeBegin
  \/ DecodeLat
  \/ DecodeLng
  \/ DecodeRaise
  \/ DecodeReturn
  \/ DecodeFailed
  \/ PolylineBad
  \/ PolylineGood
  \/ GatherBegin
  \/ GatherSkip
  \/ GatherSample
  \/ GatherEnd
  \/ Attach
  \/ NoStartStation
  \/ ChooseStart
  \/ Plan

\* --------------------------------------------- requests running together
\* Each request runs post in a thread of its own; the threads share the
\* catalog and the two caches.  A step is a cache.get, a call of a service
\* or a cache.set with the thread's own computation up to the next access;
\* the part of post after the route reads the catalog only and is one step.
\* procs[p] is the thread's state: pc, data, origin, destination, route,
\* got (the value about to be cached), response.
Procs == 1..MaxProcs

\* the answers of the two services, the same whenever they are asked:
\* nominatim by text, osrm by the coordinates <<o.lat, o.lon, d.lat, d.lon>>
Asked(o, d) == <<o.lat, o.lon, d.lat, d.lon>>

SetProc(p, rec) == procs' = [procs EXCEPT ![p] = rec]

Respond(p, resp) == SetProc(p, [procs[p] EXCEPT !.pc = "done", !.response = <<resp>>])

\* the endpoint a thread is resolving
AtStart(p) == procs[p].pc \in {"o_latlon", "o_ask", "o_set"}
TextOf(p) == IF AtStart(p) THEN procs[p].data.start[1] ELSE procs[p].data.end[1]
\* the endpoint resolved to g: o_lat, o_lon, o_name or d_lat, d_lon, d_name
Resolved(p, g) ==
  IF AtStart(p)
  THEN SetProc(p, [procs[p] EXCEPT !.pc = "d_latlon", !.origin = <<g>>, !.got = <<>>])
  ELSE SetProc(p, [procs[p] EXCEPT !.pc = "route", !.destination = <<g>>, !.got = <<>>])

ConcUnchanged == UNCHANGED <<planVars, decVars, reqVars, data, origin, destination, route, calls, world>>

\* views.py lines 16-22
ConcValidate(p) ==
  /\ procs[p].pc = "validate"
  /\ IF ~HasStart(procs[p].data)
     THEN Respond(p, ValidationResponse("Provide start or start_latlng"))
     ELSE IF ~HasEnd(procs[p].data)
     THEN Respond(p, ValidationResponse("Provide end or end_latlng"))
     ELSE SetProc(p, [procs[p] EXCEPT !.pc = "o_latlon"])
  /\ UNCHANGED <<geo_cache, route_cache>>
  /\ ConcUnchanged

\* views.py lines 27-29
ConcStartLatLng(p) ==
  /\ procs[p].pc = "o_latlon"
  /\ UsesLatLng(procs[p].data.start_latlng, procs[p].data.start)
  /\ Resolved(p, [name |-> "start_latlng", lat |-> procs[p].data.start_latlng[1].lat,
                  lon |-> procs[p].data.start_latlng[1].lon])
  /\ UNCHANGED <<geo_cache, route_cache>>
  /\ ConcUnchanged

\* views.py lines 40-42
ConcEndLatLng(p) ==
  /\ procs[p].pc = "d_latlon"
  /\ UsesLatLng(procs[p].data.end_latlng, procs[p].data.end)
  /\ Resolved(p, [name |-> "end_latlng", lat |-> procs[p].data.end_latlng[1].lat,
                  lon |-> procs[p].data.end_latlng[1].lon])
  /\ UNCHANGED <<geo_cache, route_cache>>
  /\ ConcUnchanged

\* views.py lines 32 and 44, osm_api.py lines 16-19: cache.get
ConcGeocodeGet(p) ==
  /\ \/ /\ procs[p].pc = "o_latlon"
        /\ ~UsesLatLng(procs[p].data.start_latlng, procs[p].data.start)
     \/ /\ procs[p].pc = "d_latlon"
        /\ ~UsesLatLng(procs[p].data.end_latlng, procs[p].data.end)
  /\ LET cached == CacheGet(geo_cache, StripLower(TextOf(p)))
     IN  IF cached # <<>>
         THEN Resolved(p, cached[1])
         ELSE SetProc(p, [procs[p] EXCEPT !.pc = IF AtStart(p) THEN "o_ask" ELSE "d_ask"])
  /\ UNCHANGED <<geo_cache, route_cache>>
  /\ ConcUnchanged

\* osm_api.py lines 21-43, views.py lines 33-37 and 45-49: the service is
\* asked
ConcGeocodeAsk(p) ==
  /\ procs[p].pc \in {"o_ask", "d_ask"}
  /\ LET ans == GeocodeAnswer(TextOf(p), world.nominatim[TextOf(p)])
     IN  IF ans.raised THEN Respond(p, ServerError("HTTPError"))
         ELSE IF ans.out = <<>>
         THEN Respond(p, ErrorResponse([error |->
                IF AtStart(p) THEN "START_NOT_FOUND_OR_NOT_US"
                ELSE "END_NOT_FOUND_OR_NOT_US"]))
         ELSE SetProc(p, [procs[p] EXCEPT !.pc = IF AtStart(p) THEN "o_set" ELSE "d_set",
                                         !.got = ans.out])
  /\ UNCHANGED <<geo_cache, route_cache>>
  /\ ConcUnchanged

\* osm_api.py lines 44-45, views.py lines 38 and 50: cache.set
ConcGeocodeSet(p) ==
  /\ procs[p].pc \in {"o_set", "d_set"}
  /\ geo_cache' = CacheSet(geo_cache, StripLower(TextOf(p)), procs[p].got[1])
  /\ Resolved(p, procs[p].got[1])
  /\ UNCHANGED route_cache
  /\ ConcUnchanged

\* views.py line 55, osrm_api.py lines 17-20: cache.get
ConcRouteGet(p) ==
  /\ procs[p].pc = "route"
  /\ LET cached == CacheGet(route_cache, RouteKey(procs[p].origin[1], procs[p].destination[1]))
     IN  IF cached # <<>>
         THEN SetProc(p, [procs[p] EXCEPT !.pc = "core", !.route = cached])
         ELSE SetProc(p, [procs[p] EXCEPT !.pc = "r_ask"])
  /\ UNCHANGED <<geo_cache, route_cache>>
  /\ ConcUnchanged

\* osrm_api.py lines 22-47, views.py lines 56-57: the service is asked
ConcRouteAsk(p) ==
  /\ procs[p].pc = "r_ask"
  /\ LET ans == ComputeRouteAnswer(
                  world.osrm[Asked(procs[p].origin[1], procs[p].destination[1])])
     IN  IF ans.raised THEN Respond(p, ServerError("HTTPError"))
         ELSE IF ans.out = <<>>
         THEN Respond(p, ErrorResponse([error |-> "ROUTE_NOT_FOUND_OR_RATE_LIMIT"]))
         ELSE SetProc(p, [procs[p] EXCEPT !.pc = "r_set", !.got = ans.out])
  /\ UNCHANGED <<geo_cache, route_cache>>
  /\ ConcUnchanged

\* osrm_api.py lines 49-50: cache.set
ConcRouteSet(p) ==
  /\ procs[p].pc = "r_set"
  /\ route_cache' = CacheSet(route_cache,
                             RouteKey(procs[p].origin[1], procs[p].destination[1]),
                             procs[p].got[1])
  /\ SetProc(p, [procs[p] EXCEPT !.pc = "core", !.route = procs[p].got, !.got = <<>>])
  /\ UNCHANGED geo_cache
  /\ ConcUnchanged

\* views.py lines 60-118
ConcCore(p) ==
  /\ procs[p].pc = "core"
  /\ \E resp \in RouteResponses(catalog, procs[p].origin[1], procs[p].destination[1],
                                procs[p].route[1], procs[p].data.corridor_miles,
                                procs[p].data.max_range_miles, procs[p].data.mpg) :
       Respond(p, resp)
  /\ UNCHANGED <<geo_cache, route_cache>>
  /\ ConcUnchanged

ConcNext ==
  \E p \in Procs :
    \/ ConcValidate(p)
    \/ ConcStartLatLng(p)
    \/ ConcEndLatLng(p)
    \/ ConcGeocodeGet(p)
    \/ ConcGeocodeAsk(p)
    \/ ConcGeocodeSet(p)
    \/ ConcRouteGet(p)
    \/ ConcRouteAsk(p)
    \/ ConcRouteSet(p)
    \/ ConcCore(p)

\* views.py lines 15-118: the responses of a request that runs by itself,
\* from the caches gc and rc, the services answering as w
PostResponses(d, gc, rc, w, cat) ==
  IF ~HasStart(d) THEN {ValidationResponse("Provide start or start_latlng")}
  ELSE IF ~HasEnd(d) THEN {ValidationResponse("Provide end or end_latlng")}
  ELSE
  LET o == IF UsesLatLng(d.start_latlng, d.start)
           THEN [raised |-> FALSE, cache |-> gc, asked |-> FALSE,
                 out |-> <<[name |-> "start_latlng", lat |-> d.start_latlng[1].lat,
                            lon |-> d.start_latlng[1].lon]>>]
           ELSE GeocodeUs(gc, d.start[1], w.nominatim[d.start[1]])
  IN
  IF o.raised THEN {ServerError("HTTPError")}
  ELSE IF o.out = <<>> THEN {ErrorResponse([error |-> "START_NOT_FOUND_OR_NOT_US"])}
  ELSE
  LET e == IF UsesLatLng(d.end_latlng, d.end)
           THEN [raised |-> FALSE, cache |-> o.cache, asked |-> FALSE,
                 out |-> <<[name |-> "end_latlng", lat |-> d.end_latlng[1].lat,
                            lon |-> d.end_latlng[1].lon]>>]
           ELSE GeocodeUs(o.cache, d.end[1], w.nominatim[d.end[1]])
  IN
  IF e.raised THEN {ServerError("HTTPError")}
  ELSE IF e.out = <<>> THEN {ErrorResponse([error |-> "END_NOT_FOUND_OR_NOT_US"])}
  ELSE
  LET r == ComputeRouteOsrm(rc, o.out[1], e.out[1], w.osrm[Asked(o.out[1], e.out[1])])
  IN
  IF r.raised THEN {ServerError("HTTPError")}
  ELSE IF r.out = <<>> THEN {ErrorResponse([error |-> "ROUTE_NOT_FOUND_OR_RATE_LIMIT"])}
  ELSE RouteResponses(cat, o.out[1], e.out[1], r.out[1],
                      d.corridor_miles, d.max_range_miles, d.mpg)

\* the requests that run together: the origin as text, as one of two
\* coordinates that the cache key does not tell apart, or in no form
ConcRequests ==
  [start : {<<>>} \cup {<<t>> : t \in Texts},
   start_latlng : {<<>>, <<[lat |-> 0, lon |-> 0]>>, <<[lat |-> 1, lon |-> 0]>>},
   end : {<<>>},
   end_latlng : {<<[lat |-> 4, lon |-> 0]>>},
   corridor_miles : {2},
   max_range_miles : {4},
   mpg : {<<1, 1>>}]

\* the services: nominatim finds the place, with or without display_name;
\* osrm gives a route from the coordinates asked, or too many requests
Worlds ==
  [nominatim :
     [Texts -> {[status |-> 200,
                 data |-> <<[lat |-> 0, lon |-> 0, display_name |-> dn]>>] :
                dn \in {<<>>, <<"Denver, Colorado">>}}],
   osrm :
     [{<<0, 0, 4, 0>>, <<1, 0, 4, 0>>} ->
        {[status |-> 429, routes |-> <<>>],
         [status |-> 200, routes |-> <<[distance |-> 6, geometry |-> <<63, 63, 71, 63>>]>>],
         [status |-> 200, routes |-> <<[distance |-> 5, geometry |-> <<65, 63, 69, 63>>]>>]}]]

\* the catalog of the requests that run together
ConcCatalog ==
  <<[lat |-> 0, lon |-> 0, price |-> 30000], [lat |-> 4, lon |-> 0, price |-> 20000]>>

\* the routes of the corridor scan: vertices one unit apart or more
FinePolys ==
  UNION {[1..n -> {<<x, 0>> : x \in 0..(2 * MaxCoord)}] : n \in 2..MaxVertices}

\* gather_candidates, then attach_route_miles (views.py lines 65-67)
GatherNext ==
  \/ GatherBegin
  \/ GatherSkip
  \/ GatherSample
  \/ GatherEnd
  \/ Attach

\* ------------------------------------------------------- specifications
ConcUnused == procs = <<>> /\ world = <<>>

PostUnused ==
  /\ data = <<>> /\ origin = <<>> /\ destination = <<>> /\ route = <<>>
  /\ geo_cache = {} /\ route_cache = {} /\ calls = <<>>
  /\ ConcUnused

RequestUnused ==
  /\ catalog = <<>> /\ corridor_miles = 0 /\ responses = <<>> /\ RequestIdle
  /\ PostUnused

\* Spec: min_cost_plan on every argument list within the bounds
Init == PlanInit /\ polyline_str = <<>> /\ DecodeIdle /\ RequestUnused
Next == PlanNext
Spec == Init /\ [][Next]_vars

\* SpecDecode: decode_polyline, then cumulative_miles, on every string
\* within the bounds
PlanUnused ==
  /\ stations = <<>> /\ total_miles = 0 /\ mpg = <<1, 1>> /\ max_range_miles = 0
  /\ PlanIdle

InitDecode == polyline_str \in Strings /\ DecodeIdle /\ PlanUnused /\ RequestUnused
SpecDecode == InitDecode /\ [][DecodeNext]_vars

\* the endpoint of a request given as coordinates
LatLng(name, p) == [name |-> name, lat |-> p[1], lon |-> p[2]]

\* SpecRequest: MaxRequests requests in a row, from the decoded route on,
\* with the same route, catalog and parameters; the route runs from the
\* origin to the destination
InitRequest ==
  /\ coords \in Polys
  /\ data = <<>> /\ route = <<>> /\ geo_cache = {} /\ route_cache = {} /\ calls = <<>>
  /\ ConcUnused
  /\ origin = <<LatLng("start_latlng", coords[1])>>
  /\ destination = <<LatLng("end_latlng", coords[Len(coords)])>>
  /\ catalog \in Catalogs
  /\ corridor_miles \in {0, 2}
  /\ mpg = <<1, 1>>
  /\ max_range_miles \in {2 * r : r \in 1..MaxRange}
  /\ stations = <<>> /\ total_miles = 0 /\ PlanIdle
  /\ polyline_str = <<>> /\ index = 0 /\ lat = 0 /\ lng = 0 /\ shift = 0 /\ result = 0
  /\ dpc = "returned" /\ cum = <<>>
  /\ responses = <<>> /\ RequestIdle
SpecRequest == InitRequest /\ [][RequestNext]_vars

\* SpecVehicle: one request from the decoded route on, for every route,
\* catalog and vehicle within the bounds
InitVehicle ==
  /\ coords \in Polys
  /\ data = <<>> /\ route = <<>> /\ geo_cache = {} /\ route_cache = {} /\ calls = <<>>
  /\ ConcUnused
  /\ origin = <<LatLng("start_latlng", coords[1])>>
  /\ destination = <<LatLng("end_latlng", coords[Len(coords)])>>
  /\ catalog \in Catalogs
  /\ corridor_miles = 2
  /\ mpg \in VehicleMpg
  /\ max_range_miles \in {2 * r : r \in 1..MaxRange}
  /\ stations = <<>> /\ total_miles = 0 /\ PlanIdle
  /\ polyline_str = <<>> /\ index = 0 /\ lat = 0 /\ lng = 0 /\ shift = 0 /\ result = 0
  /\ dpc = "returned" /\ cum = <<>>
  /\ responses = <<>> /\ RequestIdle
SpecVehicle == InitVehicle /\ [][VehicleNext]_vars

\* SpecAccepted: one request from the decoded route on, with every sign of
\* mpg, max_range_miles and corridor_miles
InitAccepted ==
  /\ coords \in Polys
  /\ data = <<>> /\ route = <<>> /\ geo_cache = {} /\ route_cache = {} /\ calls = <<>>
  /\ ConcUnused
  /\ origin = <<LatLng("start_latlng", coords[1])>>
  /\ destination = <<LatLng("end_latlng", coords[Len(coords)])>>
  /\ catalog \in PostCatalogs
  /\ corridor_miles \in AcceptedMiles
  /\ mpg \in AcceptedMpg
  /\ max_range_miles \in AcceptedMiles
  /\ stations = <<>> /\ total_miles = 0 /\ PlanIdle
  /\ polyline_str = <<>> /\ index = 0 /\ lat = 0 /\ lng = 0 /\ shift = 0 /\ result = 0
  /\ dpc = "returned" /\ cum = <<>>
  /\ responses = <<>> /\ RequestIdle
SpecAccepted == InitAccepted /\ [][VehicleNext]_vars

\* SpecGather: gather_candidates and attach_route_miles on every route and
\* catalog within the bounds
InitGather ==
  /\ coords \in FinePolys
  /\ PostUnused
  /\ catalog \in Catalogs
  /\ corridor_miles \in {0, 2}
  /\ PlanUnused
  /\ polyline_str = <<>> /\ index = 0 /\ lat = 0 /\ lng = 0 /\ shift = 0 /\ result = 0
  /\ dpc = "returned" /\ cum = <<>>
  /\ responses = <<>> /\ RequestIdle
SpecGather == InitGather /\ [][GatherNext]_vars

\* SpecPost: one request through the whole of post, on every request, every
\* answer of the two services, and every catalog and cache within the bounds
InitPost ==
  /\ data \in Requests
  /\ catalog \in PostCatalogs
  /\ geo_cache \in GeoCaches
  /\ route_cache \in RouteCaches
  /\ origin = <<>> /\ destination = <<>> /\ route = <<>> /\ calls = <<>>
  /\ ConcUnused
  /\ rpc = "validate" /\ vertex = 0 /\ next_sample = 0 /\ candidates = <<>>
  /\ samples = <<>> /\ enriched = <<>> /\ start_fs = None
  /\ corridor_miles = 0 /\ responses = <<>>
  /\ PlanUnused
  /\ polyline_str = <<>> /\ index = 0 /\ lat = 0 /\ lng = 0 /\ shift = 0 /\ result = 0
  /\ coords = <<>> /\ dpc = "idle" /\ cum = <<>>
SpecPost == InitPost /\ [][PostNext]_vars

\* SpecConc: MaxProcs requests running together from empty caches, under
\* every interleaving of their steps
InitConc ==
  /\ world \in Worlds
  /\ procs \in [Procs -> {[pc |-> "validate", data |-> d, origin |-> <<>>,
                            destination |-> <<>>, route |-> <<>>, got |-> <<>>,
                            response |-> <<>>] : d \in ConcRequests}]
  /\ catalog = ConcCatalog
  /\ geo_cache = {} /\ route_cache = {}
  /\ data = <<>> /\ origin = <<>> /\ destination = <<>> /\ route = <<>> /\ calls = <<>>
  /\ corridor_miles = 0 /\ responses = <<>> /\ RequestIdle
  /\ PlanUnused
  /\ polyline_str = <<>> /\ index = 0 /\ lat = 0 /\ lng = 0 /\ shift = 0 /\ result = 0
  /\ coords = <<>> /\ dpc = "idle" /\ cum = <<>>
SpecConc == InitConc /\ [][ConcNext]_vars

\* The stepwise run returns what the function returns.
PlanStepsAgree ==
  pc = "done" => ret = MinCostPlan(stations, total_miles, mpg, max_range_miles)

DecodeStepsAgree ==
  /\ dpc = "returned" =>
       DecodePolyline(polyline_str) = [raised |-> FALSE, coords |-> coords]
  /\ dpc = "IndexError" => DecodePolyline(polyline_str).raised

GatherStepsAgree ==
  rpc \in {"attach", "start"} =>
    candidates \in GatherCandidates(catalog, coords, corridor_miles)

PostStepsAgree ==
  (rpc = "done" /\ route # <<>>) =>
    responses[1] \in RouteResponses(catalog, origin[1], destination[1], route[1],
                                    corridor_miles, max_range_miles, mpg)

\* ---------------------------------------------------------------- claims
Returned == pc = "done"
ReturnedError == pc = "done" /\ ret.err # <<>>
ReturnedPlan == pc = "done" /\ ret.plan # <<>>

\* The positions of the node list as the claims describe it: the stations
\* with route_miles <= total_miles, and the terminal node at total_miles.
NodeMiles ==
  {stations[k].route_miles : k \in {n \in 1..Len(stations) :
                                     stations[n].route_miles <= total_miles}}
    \cup {total_miles}

\* p and q are the positions of two consecutive nodes of the sorted list
ConsecutiveMiles(p, q) ==
  /\ p \in NodeMiles /\ q \in NodeMiles /\ p < q
  /\ ~\E r \in NodeMiles : p < r /\ r < q

LongGap(p, q) == ConsecutiveMiles(p, q) /\ q - p > max_range_miles + GapEps

\* C1: min_cost_plan returns NO_FEASIBLE_PLAN if and only if two consecutive
\* nodes of the sorted node list (stations within total_miles plus the
\* terminal node) are more than max_range_miles + 1e-6 apart, wherever the
\* pair is in the list.
C1_InfeasibleIffLongGap ==
  Returned =>
    ((ret.err # <<>> /\ ret.err[1].error = "NO_FEASIBLE_PLAN")
       <=> \E p \in NodeMiles, q \in NodeMiles : LongGap(p, q))

\* C1 witness: the error is returned for the pair (last station, terminal
\* node), the pairs before it being within range.
C1_Witness ==
  /\ ReturnedError
  /\ Len(nodes) >= 3
  /\ i = Len(nodes) - 1
  /\ nodes[i].fs # None /\ nodes[i + 1].fs = None

\* C2: min_cost_plan returns exactly one of (plan, error); with the error no
\* purchase was simulated and gap_miles is the distance between the
\* lowest-positioned consecutive pair that is too far apart; with a plan
\* there is no error.
C2_PlanXorError ==
  Returned =>
    /\ (ret.plan = <<>>) # (ret.err = <<>>)
    /\ (ret.err # <<>> =>
         /\ st = LoopInit
         /\ \E p \in NodeMiles, q \in NodeMiles :
              /\ LongGap(p, q)
              /\ \A p2 \in NodeMiles, q2 \in NodeMiles : LongGap(p2, q2) => p <= p2
              /\ ret.err[1].gap_miles = q - p)

\* C2 witness: two pairs are too far apart, with different gaps, and the
\* error is returned.
C2_Witness ==
  /\ ReturnedError
  /\ \E p \in NodeMiles, q \in NodeMiles, p2 \in NodeMiles, q2 \in NodeMiles :
       LongGap(p, q) /\ LongGap(p2, q2) /\ p < p2 /\ q - p # q2 - p2

\* A refuelling schedule on the node list ns buys b >= 0 at each node before
\* the last, in list order.  From node k with fuel f on board it is valid
\* when the tank never holds more than its capacity (range, in fuel units)
\* and the fuel never runs out before the next node.  ScheduleCosts is the
\* set of the costs of the valid schedules from (k, f), in cost units.
\* Positions, range and f are integers, and so the least cost over
\* real-valued purchases is attained by integer purchases.
RECURSIVE ScheduleCosts(_, _, _, _)
ScheduleCosts(ns, k, f, range) ==
  IF k = Len(ns) THEN {0}
  ELSE UNION {{b * ns[k].price + c :
                 c \in ScheduleCosts(ns, k + 1, f + b - Gap(ns, k), range)} :
              b \in {x \in 0..(range - f) : f + x >= Gap(ns, k)}}

SetMin(S) == CHOOSE x \in S : \A y \in S : x <= y

\* the costs of the valid schedules that start with an empty tank at node 1
ValidCosts == ScheduleCosts(nodes, 1, 0, max_range_miles)

FirstNodeAtZero == nodes # <<>> /\ nodes[1].route_miles = 0

\* every consecutive pair of nodes is at most max_range_miles apart
GapsWithinRange ==
  \A p \in NodeMiles, q \in NodeMiles :
    ConsecutiveMiles(p, q) => q - p <= max_range_miles

\* C3 (amended): for every input whose first node is at route mile 0 and
\* whose consecutive nodes are at most max_range_miles apart, a plan is
\* returned, valid schedules exist, the plan's total cost before the final
\* rounding is the least cost of a valid schedule, and the returned
\* total_cost is that cost rounded to 4 decimals.
C3_TotalCostIsMinimum ==
  (Returned /\ FirstNodeAtZero /\ GapsWithinRange) =>
    /\ ret.plan # <<>>
    /\ ValidCosts # {}
    /\ st.total_cost = SetMin(ValidCosts)
    /\ ret.plan[1].total_cost
         = RoundDollars(SetMin(ValidCosts), mpg)

\* C3 witness: a plan that buys at two stations of different prices.
C3_Witness ==
  /\ ReturnedPlan /\ FirstNodeAtZero /\ GapsWithinRange
  /\ \E a \in 1..Len(st.plan), b \in 1..Len(st.plan) :
       st.plan[a].price < st.plan[b].price

\* C3 as worded: for every feasible input (one that passes the feasibility
\* check, so that a plan is returned) whose first node is at route mile 0,
\* the plan's total cost is the least cost of a valid schedule.
C3_Original ==
  (ReturnedPlan /\ FirstNodeAtZero) =>
    /\ ValidCosts # {}
    /\ st.total_cost = SetMin(ValidCosts)

\* The later nodes (by index) within max_range_miles of node h whose price
\* is strictly lower than node h's.
CheaperWithinRange(h) ==
  {k \in (h + 1)..Len(nodes) :
     /\ nodes[k].route_miles - nodes[h].route_miles <= max_range_miles
     /\ nodes[k].price < nodes[h].price}

ClaimedTarget(h) ==
  IF CheaperWithinRange(h) # {}
  THEN nodes[SetMin(CheaperWithinRange(h))].route_miles
  ELSE Min(total_miles, nodes[h].route_miles + max_range_miles)

\* C4: at every node h of the scan the fuel bought is
\* max(0, min(tank capacity, (target - position of h) / mpg) - fuel on board),
\* the target being the position of the first later node within
\* max_range_miles with a strictly lower price, or
\* min(total_miles, position of h + max_range_miles) when there is none.
C4_BuysUpToTarget ==
  \A e \in 1..Len(st.log) :
    LET h == st.log[e].node
    IN  st.log[e].buy_gal
          = Max(0, Min(max_range_miles, ClaimedTarget(h) - nodes[h].route_miles)
                     - st.log[e].before)

\* C4 witness: a strictly cheaper station is within reach, a full tank would
\* be usable, and the vehicle buys exactly the fuel to reach that station.
C4_Witness ==
  \E e \in 1..Len(st.log) :
    LET h == st.log[e].node
    IN  /\ CheaperWithinRange(h) # {}
        /\ nodes[SetMin(CheaperWithinRange(h))].fs # None
        /\ st.log[e].before = 0
        /\ st.log[e].buy_gal = ClaimedTarget(h) - nodes[h].route_miles
        /\ st.log[e].buy_gal > 0
        /\ st.log[e].buy_gal < max_range_miles
        /\ nodes[h].route_miles + max_range_miles <= total_miles

UniformPrice(p) == \A k \in 1..Len(stations) : stations[k].price = p

FirstStationAtZero ==
  nodes # <<>> /\ nodes[1].fs # None /\ nodes[1].route_miles = 0

\* C5: when every station has the same price p, the first station is at
\* route mile 0 and all consecutive gaps are within max_range_miles, a plan
\* is returned and its total_cost is (total_miles / mpg) * p (rounded to 4
\* decimals, as total_cost is).
C5_UniformPriceCost ==
  \A p \in Prices :
    (Returned /\ UniformPrice(p) /\ FirstStationAtZero /\ GapsWithinRange) =>
      /\ ret.plan # <<>>
      /\ st.total_cost = total_miles * p
      /\ ret.plan[1].total_cost = RoundDollars(total_miles * p, mpg)

\* C5 witness: two equally priced stations, fuel bought at both, on a route
\* longer than the range.
C5_Witness ==
  /\ ReturnedPlan /\ FirstStationAtZero /\ GapsWithinRange
  /\ \E p \in Prices : UniformPrice(p)
  /\ Len(stations) = 2
  /\ Len(st.plan) = 2
  /\ total_miles > max_range_miles
  /\ ret.plan[1].total_cost > 0

\* C6: the terminal node is the last node of the sorted node list and the
\* only one without a station, also when stations have route_miles equal
\* to total_miles; no cost term is computed from the infinite price and no
\* plan entry has the infinite price or no station.
C6_TerminalLastNeverBought ==
  pc # "start" =>
    /\ nodes[Len(nodes)] = TerminalNode(total_miles)
    /\ \A k \in 1..(Len(nodes) - 1) : nodes[k].fs # None /\ nodes[k].price # Inf
    /\ ~st.inf_cost
    /\ \A e \in 1..Len(st.plan) : st.plan[e].price # Inf /\ st.plan[e].id # None
    /\ \A e \in 1..Len(st.log) : st.log[e].node < Len(nodes)

\* C6 witness: a plan is returned for a node list that holds two stations at
\* route_miles = total_miles before the terminal node.
C6_Witness ==
  /\ ReturnedPlan
  /\ Len(nodes) >= 3
  /\ nodes[Len(nodes) - 1].route_miles = total_miles
  /\ nodes[Len(nodes) - 2].route_miles = total_miles
  /\ total_miles > 0

\* C7: two planning runs over identical inputs (the same decoded route, the
\* same catalog, the same corridor_miles, max_range_miles and mpg) produce
\* identical plans: the same stops in the same order with the same gallons
\* and costs, and the same total, also when stations have equal prices at
\* the max_per_sample cut-off or equal route_miles.
C7_Original ==
  \A a, b \in 1..Len(responses) : responses[a] = responses[b]


\* ------------------------------------------------ claims on the decoder
DecodeReturned == dpc \in {"returned", "cum"}

\* the positions of the characters that end a group (value below 0x20)
GroupEnds == {p \in 1..Len(polyline_str) : polyline_str[p] - 63 < 32}

\* Well-formed: a sequence of complete groups, two for every point.
WellFormed ==
  /\ polyline_str # <<>> => Len(polyline_str) \in GroupEnds
  /\ Cardinality(GroupEnds) % 2 = 0

\* C8: decode_polyline returns the empty sequence for the empty string,
\* never reads beyond the end of a well-formed input, and on an input that
\* ends inside a group or between a latitude and its longitude fails with
\* an error and never returns a point sequence.
C8_DecodeBounds ==
  /\ index <= Len(polyline_str)
  /\ polyline_str = <<>> => (dpc # "IndexError" /\ coords = <<>>)
  /\ WellFormed => dpc # "IndexError"
  /\ ~WellFormed => ~DecodeReturned

\* C8 witness: the input ends after a latitude group, one point has been
\* decoded before, and the decoder has failed.
C8_Witness ==
  /\ dpc = "IndexError"
  /\ Len(coords) = 1
  /\ Len(polyline_str) \in GroupEnds
  /\ Cardinality(GroupEnds) = 3

\* the g-th group of the input: its last and first positions, its value
\* (5 bits per character, least significant first)
GroupEnd(g) == CHOOSE p \in GroupEnds : Cardinality({q \in GroupEnds : q <= p}) = g
GroupStart(g) == IF g = 1 THEN 1 ELSE GroupEnd(g - 1) + 1

RECURSIVE Pow32(_)
Pow32(n) == IF n = 0 THEN 1 ELSE 32 * Pow32(n - 1)

RECURSIVE GroupSum(_, _)
GroupSum(from, to) ==
  IF to < from THEN 0
  ELSE GroupSum(from, to - 1)
         + ((polyline_str[to] - 63) % 32) * Pow32(to - from)

GroupValue(g) == GroupSum(GroupStart(g), GroupEnd(g))

\* zig-zag: the code of the integer d
ZigZag(d) == IF d >= 0 THEN 2 * d ELSE 0 - 2 * d - 1

PointBefore(k) == IF k = 1 THEN <<0, 0>> ELSE coords[k - 1]

\* C9: for a well-formed string decode_polyline returns one point per pair
\* of groups, and the k-th point is the (k-1)-th plus the integers whose
\* zig-zag codes are the values of groups 2k-1 (latitude) and 2k
\* (longitude), in units of 1e-5 degree.
C9_DecodedPoints ==
  DecodeReturned =>
    /\ 2 * Len(coords) = Cardinality(GroupEnds)
    /\ \A k \in 1..Len(coords) :
         /\ ZigZag(coords[k][1] - PointBefore(k)[1]) = GroupValue(2 * k - 1)
         /\ ZigZag(coords[k][2] - PointBefore(k)[2]) = GroupValue(2 * k)

\* C9 witness: two points, one of them through a negative delta that takes
\* two characters.
C9_Witness ==
  /\ DecodeReturned
  /\ Len(coords) = 2
  /\ \E k \in 1..2, c \in 1..2 : coords[k][c] - PointBefore(k)[c] <= 0 - 17

\* C10: for every point sequence, the empty one and a single point
\* included, cumulative_miles returns a sequence of the same length whose
\* first entry is 0 and whose entries are non-decreasing.
C10_Original ==
  dpc = "cum" =>
    /\ Len(cum) = Len(coords)
    /\ cum # <<>> => cum[1] = 0
    /\ \A k \in 2..Len(cum) : cum[k - 1] <= cum[k]

\* ------------------------------------------ claims on the request pipeline
Range(q) == {q[k] : k \in 1..Len(q)}
NoDuplicates(q) == \A a, b \in 1..Len(q) : a # b => q[a] # q[b]
SampledIds == UNION {Range(samples[k].qs) : k \in 1..Len(samples)}
Gathered == rpc \in {"attach", "start", "plan", "done"}
Attached == rpc \in {"start", "plan", "done"}
StartChosen == rpc = "plan" \/ (rpc = "done" /\ responses # <<>>)

\* C11: the candidate list of gather_candidates holds each station id at
\* most once, however many sampled boxes the station falls into, and holds
\* every station that some sample query returned (and no other).
C11_CandidatesDeduplicated ==
  /\ NoDuplicates(candidates)
  /\ Range(candidates) = SampledIds

\* C11 witness: gather_candidates has returned, and one station was
\* returned by two of its sample queries.
C11_Witness ==
  /\ Gathered
  /\ \E a, b \in 1..Len(samples) :
       a # b /\ Range(samples[a].qs) \cap Range(samples[b].qs) # {}

PositionIn(q, x) == CHOOSE k \in 1..Len(q) : q[k] = x

\* C12: attach_route_miles returns exactly one entry per input station, in
\* non-decreasing order of route_miles, entries of equal route_miles in the
\* order of the input.
C12_AttachSortedStable ==
  Attached =>
    /\ Len(enriched) = Len(candidates)
    /\ {enriched[k].fs : k \in 1..Len(enriched)} = Range(candidates)
    /\ \A a, b \in 1..Len(enriched) : a < b =>
         \/ enriched[a].route_miles < enriched[b].route_miles
         \/ /\ enriched[a].route_miles = enriched[b].route_miles
            /\ PositionIn(candidates, enriched[a].fs)
                 < PositionIn(candidates, enriched[b].fs)

\* C12 witness: the input of attach_route_miles was not in route order
\* (the first candidate lies further along the route than the second).
C12_Witness ==
  /\ Attached
  /\ Len(candidates) = 2
  /\ enriched[1].fs = candidates[2]
  /\ enriched[1].route_miles < enriched[2].route_miles

OriginBox == Box(<<origin[1].lat, origin[1].lon>>, StartRadiusMiles)

\* C13: choose_start_station returns a priced station of the origin box
\* that is no dearer than any other priced station of the box, and None
\* exactly when the box holds no priced station; then the request ends with
\* NO_START_FUEL_STATION_NEAR_ORIGIN and min_cost_plan is not run.
C13_StartStationCheapest ==
  StartChosen =>
    /\ start_fs = None <=> Matching(catalog, OriginBox) = {}
    /\ start_fs # None =>
         /\ start_fs \in Matching(catalog, OriginBox)
         /\ \A id \in Matching(catalog, OriginBox) :
              catalog[start_fs].price <= catalog[id].price
    /\ start_fs = None =>
         /\ rpc = "done"
         /\ responses[Len(responses)]
              = ErrorResponse([error |-> "NO_START_FUEL_STATION_NEAR_ORIGIN"])
         /\ ret = [plan |-> <<>>, err |-> <<>>]

\* C13 witness: the origin box holds two priced stations of different
\* prices and a start station has been chosen.
C13_Witness ==
  /\ rpc = "plan"
  /\ \E a, b \in Matching(catalog, OriginBox) : catalog[a].price < catalog[b].price

SampledVertices == {samples[k].vertex : k \in 1..Len(samples)}
SamplesBefore(v) == Cardinality({k \in 1..Len(samples) : samples[k].vertex < v})
\* the threshold pending when the loop comes to vertex v
Pending(v) == SampleEveryMiles * SamplesBefore(v)
RouteLength == cum[Len(cum)]

\* C18 (amended): gather_candidates samples the first vertex, and afterwards
\* a vertex exactly when its cumulative distance has come within 1e-6 mile
\* of the pending threshold or beyond it, the threshold advancing by one
\* interval per sample; it samples no vertex once the threshold exceeds the
\* route length, and makes at least 1 and at most
\* floor(L / sample_every_miles) + 1 queries.
C18_SamplingSchedule ==
  Gathered =>
    /\ 1 \in SampledVertices
    /\ \A v \in 1..Len(coords) :
         v \in SampledVertices <=>
           /\ RouteLength >= Pending(v)
           /\ cum[v] + SampleEps >= Pending(v)
    /\ \A a, b \in 1..Len(samples) : a < b => samples[a].vertex < samples[b].vertex
    /\ Len(samples) >= 1
    /\ Len(samples) <= (RouteLength \div SampleEveryMiles) + 1

\* C18 witness: the scan is over, and a vertex was sampled whose cumulative
\* distance is short of the pending threshold by the tolerance.
C18_Witness ==
  /\ Gathered
  /\ \E v \in SampledVertices : cum[v] < Pending(v)

\* C18 as stated: after the first vertex, a vertex is sampled exactly when
\* its cumulative distance has reached the pending multiple of the interval.
C18_Original ==
  Gathered =>
    /\ 1 \in SampledVertices
    /\ \A v \in 1..Len(coords) :
         v \in SampledVertices <=>
           /\ RouteLength >= Pending(v)
           /\ cum[v] >= Pending(v)
    /\ Len(samples) >= 1
    /\ Len(samples) <= (RouteLength \div SampleEveryMiles) + 1

SampleBox(k) == Box(coords[samples[k].vertex], corridor_miles)

\* C19: every station gathered has a price and lies in the box of a sampled
\* vertex; each sample gives at most max_per_sample stations, none of them
\* dearer than a priced station of its box that it left out.
C19_SamplesCheapestInBox ==
  /\ \A id \in Range(candidates) :
       /\ catalog[id].price # None
       /\ \E k \in 1..Len(samples) : Matches(catalog[id], SampleBox(k))
  /\ \A k \in 1..Len(samples) :
       /\ Len(samples[k].qs) <= MaxPerSample
       /\ \A id \in Range(samples[k].qs) :
            /\ Matches(catalog[id], SampleBox(k))
            /\ \A out \in Matching(catalog, SampleBox(k)) \ Range(samples[k].qs) :
                 catalog[id].price <= catalog[out].price

\* C19 witness: a sample whose box holds a dearer priced station that the
\* cut-off left out.
C19_Witness ==
  /\ Gathered
  /\ \E k \in 1..Len(samples) :
       \E id \in Range(samples[k].qs) :
         \E out \in Matching(catalog, SampleBox(k)) \ Range(samples[k].qs) :
           catalog[id].price < catalog[out].price

DistanceTo(id, b) == HaversineMiles(<<catalog[id].lat, catalog[id].lon>>, coords[b])
\* the lowest index among the vertices at the least distance from station id
NearestVertex(id) ==
  CHOOSE b \in 1..Len(coords) :
    /\ \A k \in 1..Len(coords) : DistanceTo(id, b) <= DistanceTo(id, k)
    /\ \A k \in 1..(b - 1) : DistanceTo(id, b) < DistanceTo(id, k)

\* C20: attach_route_miles gives every candidate route_miles = cum[b] and
\* offroute_miles = its distance to vertex b, b being the lowest index among
\* the vertices nearest to the station; so route_miles is a cumulative
\* value between 0 and the route length.
C20_NearestVertexFirst ==
  Attached =>
    \A k \in 1..Len(enriched) :
      /\ enriched[k].route_miles = cum[NearestVertex(enriched[k].fs)]
      /\ enriched[k].offroute_miles
           = DistanceTo(enriched[k].fs, NearestVertex(enriched[k].fs))
      /\ enriched[k].route_miles >= 0
      /\ enriched[k].route_miles <= RouteLength

\* C20 witness: a candidate has two nearest vertices at different
\* cumulative distances.
C20_Witness ==
  /\ Attached
  /\ \E k \in 1..Len(enriched) :
       \E a, b \in 1..Len(coords) :
         /\ a < b /\ cum[a] < cum[b]
         /\ a = NearestVertex(enriched[k].fs)
         /\ DistanceTo(enriched[k].fs, a) = DistanceTo(enriched[k].fs, b)

\* ------------------------------------------------ claims on the whole of post
Finished == rpc = "done" /\ responses # <<>>
NoCatalogQuery == samples = <<>> /\ start_fs = None
NotPlanned == ret = [plan |-> <<>>, err |-> <<>>]
Error400(code) == ErrorResponse([error |-> code])
\* the place of a call in the order of post
Rank(arg) == IF arg = "start" THEN 1 ELSE IF arg = "end" THEN 2 ELSE 3
\* the error of a call that finds nothing
NotFound(arg) ==
  IF arg = "start" THEN Error400("START_NOT_FOUND_OR_NOT_US")
  ELSE IF arg = "end" THEN Error400("END_NOT_FOUND_OR_NOT_US")
  ELSE Error400("ROUTE_NOT_FOUND_OR_RATE_LIMIT")
\* a service's answer that gives no place and no route
GivesNothing(reply) ==
  \/ reply.status # 200
  \/ "data" \in DOMAIN reply /\ (reply.data = <<>> \/ ~InUsa(reply.data[1]))
  \/ "routes" \in DOMAIN reply /\ (reply.routes = <<>> \/ reply.routes[1].geometry = <<>>)

\* C14: post checks its preconditions in a fixed order (start resolved, end
\* resolved, route obtained, decoded geometry of at least 2 points, start
\* station found, plan feasible); the first that fails decides the one
\* response, nothing is done after it, a geometry of fewer than 2 points
\* gives BAD_ROUTE_POLYLINE before any catalog query, and no call is made
\* twice.
C14_FirstFailureDecides ==
  /\ Len(responses) <= 1
  /\ responses # <<>> => rpc = "done"
  /\ \A a, b \in 1..Len(calls) : a < b => Rank(calls[a].arg) < Rank(calls[b].arg)
  /\ \A a, b \in 1..Len(samples) : a < b => samples[a].vertex < samples[b].vertex
  /\ \A k \in 1..Len(calls) :
       (calls[k].reply # <<>> /\ GivesNothing(calls[k].reply[1])) =>
         /\ k = Len(calls) /\ Finished
         /\ responses[1] = IF calls[k].reply[1].status \in {200, 429}
                           THEN NotFound(calls[k].arg)
                           ELSE ServerError("HTTPError")
  /\ (Finished /\ HasStart(data) /\ HasEnd(data)) =>
       /\ origin = <<>> =>
            /\ responses[1] \in {NotFound("start"), ServerError("HTTPError")}
            /\ destination = <<>> /\ route = <<>> /\ dpc = "idle"
            /\ NoCatalogQuery /\ NotPlanned
       /\ (origin # <<>> /\ destination = <<>>) =>
            /\ responses[1] \in {NotFound("end"), ServerError("HTTPError")}
            /\ route = <<>> /\ dpc = "idle" /\ NoCatalogQuery /\ NotPlanned
       /\ (destination # <<>> /\ route = <<>>) =>
            /\ responses[1] \in {NotFound("route"), ServerError("HTTPError")}
            /\ dpc = "idle" /\ NoCatalogQuery /\ NotPlanned
       /\ route # <<>> =>
            /\ origin # <<>> /\ destination # <<>>
            /\ dpc \in {"returned", "IndexError"}
       /\ dpc = "IndexError" =>
            /\ responses[1] = ServerError("IndexError")
            /\ NoCatalogQuery /\ NotPlanned
       /\ (dpc = "returned" /\ Len(coords) < 2) =>
            /\ responses[1] = Error400("BAD_ROUTE_POLYLINE")
            /\ NoCatalogQuery /\ NotPlanned
       /\ (dpc = "returned" /\ Len(coords) >= 2 /\ start_fs = None) =>
            /\ responses[1] = Error400("NO_START_FUEL_STATION_NEAR_ORIGIN")
            /\ samples # <<>> /\ NotPlanned
       /\ start_fs # None =>
            /\ ~NotPlanned
            /\ ret.err # <<>> =>
                 /\ responses[1] = ErrorResponse(ret.err[1])
                 /\ ret.err[1].error = "NO_FEASIBLE_PLAN"
            /\ ret.err = <<>> => responses[1].status = 200

\* C14 witness: the route decoded to a single point, the request has ended
\* with BAD_ROUTE_POLYLINE, and the catalog has a priced station at the
\* origin that a query would have found.
C14_Witness ==
  /\ Finished
  /\ responses[1] = Error400("BAD_ROUTE_POLYLINE")
  /\ Len(coords) = 1
  /\ Matching(catalog, OriginBox) # {}

\* C15: a request that gives neither form of the origin, or neither form of
\* the destination, is rejected by the validation before anything is
\* resolved; an endpoint given in both forms is taken from its coordinates
\* and geocode_us is not called for it; an endpoint given as text only is
\* resolved by geocode_us.
C15_OneFormPerEndpoint ==
  /\ (~HasStart(data) \/ ~HasEnd(data)) =>
       /\ rpc \in {"validate", "done"}
       /\ origin = <<>> /\ destination = <<>> /\ calls = <<>>
       /\ rpc = "done" =>
            /\ responses[1].status = 400
            /\ "non_field_errors" \in DOMAIN responses[1].body
  /\ data.start_latlng # <<>> =>
       /\ \A k \in 1..Len(calls) : calls[k].arg # "start"
       /\ origin # <<>> =>
            origin[1] = [name |-> "start_latlng", lat |-> data.start_latlng[1].lat,
                         lon |-> data.start_latlng[1].lon]
  /\ data.end_latlng # <<>> =>
       /\ \A k \in 1..Len(calls) : calls[k].arg # "end"
       /\ destination # <<>> =>
            destination[1] = [name |-> "end_latlng", lat |-> data.end_latlng[1].lat,
                              lon |-> data.end_latlng[1].lon]
  /\ (data.start_latlng = <<>> /\ origin # <<>>) =>
       \E k \in 1..Len(calls) : calls[k].arg = "start"
  /\ (data.end_latlng = <<>> /\ destination # <<>>) =>
       \E k \in 1..Len(calls) : calls[k].arg = "end"
  /\ (HasStart(data) /\ HasEnd(data) /\ route # <<>>) =>
       origin # <<>> /\ destination # <<>>

\* C15 witness: the origin is given in both forms, the destination as text
\* only, and the request has come to a plan.
C15_Witness ==
  /\ Finished
  /\ data.start # <<>> /\ data.start_latlng # <<>>
  /\ data.end # <<>> /\ data.end_latlng = <<>>
  /\ responses[1].status = 200

\* C16: no step of a planning request, whether it ends in a plan or in an
\* error, changes the station catalog.
C16_CatalogUnchanged == [][catalog' = catalog]_vars

\* C16 witness: a request that made several catalog queries has ended in a
\* plan with a purchase.
C16_Witness ==
  /\ Finished
  /\ Len(samples) >= 2
  /\ responses[1].status = 200
  /\ responses[1].stops # <<>>

\* C17: requests that run together against a fixed catalog are independent:
\* under every interleaving of their steps, the reads and writes of the
\* shared caches included, each request gives a response that it could give
\* running by itself.
C17_Original ==
  \A p \in Procs :
    procs[p].pc = "done" =>
      procs[p].response[1] \in PostResponses(procs[p].data, {}, {}, world, catalog)

\* ------------------------------------------- claims on the purchase loop
\* the purchase target of log entry e lies beyond the next node
TargetBeyondNext(e) ==
  ClaimedTarget(st.log[e].node) > nodes[st.log[e].node + 1].route_miles

\* C21: after node h is processed the fuel on board is the fuel before node
\* h plus the fuel bought at h minus the fuel for the way from node h to
\* node h + 1, the next node of the list, also when the purchase was made
\* for a later node; the fuel after a node is the fuel before the next one.
C21_BurnsToNextNode ==
  /\ \A e \in 1..Len(st.log) :
       LET h == st.log[e].node
       IN  /\ h = e
           /\ st.log[e].after
                = st.log[e].before + st.log[e].buy_gal
                    - (nodes[h + 1].route_miles - nodes[h].route_miles)
           /\ st.log[e].before = IF e = 1 THEN 0 ELSE st.log[e - 1].after
  /\ st.log # <<>> => st.fuel = st.log[Len(st.log)].after

\* C21 witness: fuel is bought at a station for a target beyond the next
\* node, which is a station further on, and fuel is left over there.
C21_Witness ==
  \E e \in 1..Len(st.log) :
    LET h == st.log[e].node
    IN  /\ TargetBeyondNext(e)
        /\ nodes[h + 1].fs # None
        /\ nodes[h + 1].route_miles > nodes[h].route_miles
        /\ st.log[e].buy_gal > nodes[h + 1].route_miles - nodes[h].route_miles
        /\ st.log[e].after > 0

\* more than 1e-6 gallon was bought in log entry e (fuel f is f * 1e-6 / mpg
\* gallons)
BoughtAbove(e) == st.log[e].buy_gal * mpg[2] > mpg[1]

\* the stop of log entry e, from the node and the purchase
StopOf(e) ==
  LET here == nodes[st.log[e].node]
  IN  [id |-> here.fs,
       price |-> here.price,
       route_miles |-> RoundDiv(here.route_miles, 1000),
       gallons_bought |-> RoundDiv(st.log[e].buy_gal * mpg[2], 100 * mpg[1]),
       cost |-> RoundDiv(st.log[e].buy_gal * here.price * mpg[2], 1000000 * mpg[1])]

\* the stops of the first n log entries, in the order of the nodes
RECURSIVE StopsUpTo(_)
StopsUpTo(n) ==
  IF n = 0 THEN <<>>
  ELSE IF nodes[st.log[n].node].fs # None /\ BoughtAbove(n)
       THEN Append(StopsUpTo(n - 1), StopOf(n))
       ELSE StopsUpTo(n - 1)

\* C22: the stops of a plan are exactly the real-station nodes at which more
\* than 1e-6 gallon was bought, in the order of the nodes and so in
\* non-decreasing route_miles, each with the rounded purchase and with cost
\* the rounded product of the gallons bought and the station's price; a
\* node where nothing is bought gives no stop.
C22_StopsArePurchases ==
  /\ st.plan = StopsUpTo(Len(st.log))
  /\ \A a, b \in 1..Len(st.plan) :
       a < b => st.plan[a].route_miles <= st.plan[b].route_miles
  /\ ReturnedPlan => ret.plan[1].stops = StopsUpTo(Len(nodes) - 1)

\* C22 witness: a plan with one stop for a list of two stations on a route of
\* positive length, the other station being one where nothing is bought.
C22_Witness ==
  /\ ReturnedPlan
  /\ total_miles > 0
  /\ Len(nodes) = 3
  /\ Len(ret.plan[1].stops) = 1
  /\ \E e \in 1..Len(st.log) : st.log[e].buy_gal = 0

\* ------------------------------------- claims on the planner within post
\* the request has reached min_cost_plan
ReachedPlanner == rpc \in {"plan", "done"} /\ start_fs # None
\* min_cost_plan has returned a plan to post
PlanGiven == rpc = "done" /\ start_fs # None /\ ret.plan # <<>>

\* the planner's sorted node list and purchases for the stations of post
PlannerNodes == BuildNodes(stations, total_miles)
PlannerLog ==
  RunLoop(LoopInit, PlannerNodes, 1, total_miles, mpg, max_range_miles).log

\* more than 1e-6 gallon is bought at node h
PurchaseAbove(h) == PlannerLog[h].buy_gal * mpg[2] > mpg[1]
\* the nodes that give a stop, in list order
StopNodes == {h \in 1..Len(PlannerLog) : PurchaseAbove(h)}
\* the first node beyond route mile 0 (the terminal node if no station is)
FirstBeyondZero ==
  SetMin({h \in 1..Len(PlannerNodes) : PlannerNodes[h].route_miles > 0})

StartNode ==
  [fs |-> start_fs, route_miles |-> 0, price |-> catalog[start_fs].price]

\* C23 (amended): in every request that reaches the planner the first node
\* of the sorted node list is the selected start station at route mile 0,
\* also when candidates are projected to route mile 0.  In a returned plan
\* for a route of positive length the first stop is a node at route mile 0
\* exactly when more than 1e-6 gallon is bought at such a node, which is so
\* whenever the fuel for the shorter of max_range_miles and the way to the
\* first node beyond mile 0 is more than 1e-6 gallon.
C23_StartNodeFirst ==
  /\ ReachedPlanner => PlannerNodes[1] = StartNode
  /\ (PlanGiven /\ total_miles > 0) =>
       LET stops == ret.plan[1].stops
           atzero == {h \in StopNodes : PlannerNodes[h].route_miles = 0}
       IN  /\ Len(stops) = Cardinality(StopNodes)
           /\ atzero # {} =>
                /\ SetMin(StopNodes) \in atzero
                /\ stops[1].id = PlannerNodes[SetMin(StopNodes)].fs
                /\ stops[1].route_miles = 0
           /\ Min(max_range_miles, PlannerNodes[FirstBeyondZero].route_miles) * mpg[2]
                 > mpg[1]
                => atzero # {}

\* C23 witness: a plan for a route of positive length whose first stop is
\* the start station, with a cheaper candidate projected to route mile 0
\* behind it in the node list and a station further along the route.
C23_Witness ==
  /\ PlanGiven /\ total_miles > 0
  /\ Len(PlannerNodes) >= 3
  /\ PlannerNodes[2].route_miles = 0
  /\ PlannerNodes[2].fs # start_fs
  /\ ret.plan[1].stops # <<>>
  /\ PurchaseAbove(SetMin(StopNodes))
  /\ PlannerNodes[SetMin(StopNodes)].route_miles = 0

\* C23 as worded: the first node is the start station at route mile 0, and
\* every returned plan for a route of positive length has a first stop, at
\* route mile 0.
C23_Original ==
  /\ ReachedPlanner => PlannerNodes[1] = StartNode
  /\ (PlanGiven /\ total_miles > 0) =>
       /\ ret.plan[1].stops # <<>>
       /\ PlannerNodes[SetMin(StopNodes)].route_miles = 0

\* the fuel on board stays between empty and the tank capacity (fuel is
\* gallons times mpg, the capacity max_range_miles)
FuelWithinTank ==
  \A e \in 1..Len(st.log) :
    /\ st.log[e].after >= 0
    /\ st.log[e].before + st.log[e].buy_gal <= max_range_miles

\* C24 (amended): during the purchase simulation of an input whose
\* consecutive nodes are at most max_range_miles apart, the fuel on board is
\* never negative after burning a segment and never exceeds the tank
\* capacity max_range_miles / mpg after a purchase.
C24_FuelWithinTank == GapsWithinRange => FuelWithinTank

\* C24 witness: a plan on a route longer than the range, with a purchase
\* that fills the tank, an arrival with an empty tank and an arrival with
\* fuel left.
C24_Witness ==
  /\ ReturnedPlan /\ GapsWithinRange
  /\ total_miles > max_range_miles
  /\ \E e \in 1..Len(st.log) :
       st.log[e].buy_gal > 0 /\ st.log[e].before + st.log[e].buy_gal = max_range_miles
  /\ \E e \in 1..Len(st.log) : st.log[e].after = 0 /\ st.log[e].node > 1
  /\ \E e \in 1..Len(st.log) : st.log[e].after > 0

\* C24 as worded: during the purchase simulation of a feasible input (one
\* that passes the feasibility check) the fuel is never negative after a
\* segment and never above the tank capacity after a purchase.
C24_Original == FuelWithinTank

RECURSIVE SumSeq(_)
SumSeq(q) == IF q = <<>> THEN 0 ELSE q[1] + SumSeq(Tail(q))

\* the fuel bought over all nodes, and its cost
FuelBought == SumSeq([e \in 1..Len(st.log) |-> st.log[e].buy_gal])
CostOfPurchases ==
  SumSeq([e \in 1..Len(st.log) |-> st.log[e].buy_gal * nodes[st.log[e].node].price])
\* the purchases that give no stop: their fuel, and its cost
Unrecorded == {e \in 1..Len(st.log) : ~BoughtAbove(e)}
FuelUnrecorded ==
  SumSeq([e \in 1..Len(st.log) |-> IF e \in Unrecorded THEN st.log[e].buy_gal ELSE 0])
CostUnrecorded ==
  SumSeq([e \in 1..Len(st.log) |->
            IF e \in Unrecorded
            THEN st.log[e].buy_gal * nodes[st.log[e].node].price ELSE 0])

\* the response post gives for the returned plan (the endpoints and the
\* provider's record do not matter here)
ResponseOfPlan ==
  PlanResponse(ret.plan[1], total_miles, mpg, max_range_miles, <<>>, <<>>, <<>>)
StopsGallons ==
  SumSeq([e \in 1..Len(ResponseOfPlan.stops) |-> ResponseOfPlan.stops[e].gallons_bought])
StopsCost ==
  SumSeq([e \in 1..Len(ResponseOfPlan.stops) |-> ResponseOfPlan.stops[e].cost])
\* the figures rounded to 4 decimals: one per stop, and the total
RoundedFigures == Len(ResponseOfPlan.stops) + 1

\* C25 (amended): for every input whose first node is at route mile 0 and
\* whose consecutive nodes are at most max_range_miles apart, a plan is
\* returned, the gallons bought over all nodes sum to total_miles / mpg, the
\* vehicle arrives with an empty tank and total_cost before rounding is the
\* sum of the purchases' costs.  In the response the sum of the stops'
\* gallons_bought differs from gallons_used_total, and the sum of the
\* stops' costs from total_money_spent, by at most 0.00005 for each rounded
\* figure (each stop and the total) plus the gallons, or the cost, of the
\* purchases of at most 1e-6 gallon, which give no stop.
C25_FuelBalance ==
  (Returned /\ FirstNodeAtZero /\ GapsWithinRange) =>
    /\ ret.plan # <<>>
    /\ FuelBought = total_miles
    /\ st.fuel = 0
    /\ st.total_cost = CostOfPurchases
    /\ 200 * mpg[1] * Abs(StopsGallons - ResponseOfPlan.gallons_used_total)
         <= 100 * mpg[1] * RoundedFigures + 2 * mpg[2] * FuelUnrecorded
    /\ 2000000 * mpg[1] * Abs(StopsCost - ResponseOfPlan.total_money_spent)
         <= 1000000 * mpg[1] * RoundedFigures + 2 * mpg[2] * CostUnrecorded

\* C25 witness: a plan with two stops whose rounded gallons do not add up
\* to the rounded total.
C25_Witness ==
  /\ ReturnedPlan /\ FirstNodeAtZero /\ GapsWithinRange
  /\ Len(ret.plan[1].stops) = 2
  /\ total_miles > 0
  /\ StopsGallons # ResponseOfPlan.gallons_used_total

\* C25 as worded: for every feasible input (one that passes the feasibility
\* check) whose first node is at route mile 0, the gallons bought sum to
\* total_miles / mpg, the tank is empty at the destination, the stops'
\* gallons_bought sum to gallons_used_total and the stops' costs to
\* total_money_spent.
C25_Original ==
  (ReturnedPlan /\ FirstNodeAtZero) =>
    /\ FuelBought = total_miles
    /\ st.fuel = 0
    /\ StopsGallons = ResponseOfPlan.gallons_used_total
    /\ StopsCost = ResponseOfPlan.total_money_spent

\* C26: no station id appears more than once among the stops of a returned
\* plan, although the start station is in the planner's input at route mile
\* 0 and can also be among the corridor candidates at its projected
\* route_miles.
C26_Original ==
  PlanGiven =>
    \A a, b \in 1..Len(ret.plan[1].stops) :
      a # b => ret.plan[1].stops[a].id # ret.plan[1].stops[b].id

\* the errors that post returns as a response
StructuredErrors ==
  {"NO_START_FUEL_STATION_NEAR_ORIGIN", "NO_FEASIBLE_PLAN"}

\* C27: for every request accepted by the validation, with mpg,
\* max_range_miles and corridor_miles of any sign or zero, that reaches the
\* planner, the outcome is a plan or a structured error: the planner does
\* not end in an arithmetic failure that nothing handles, and a plan has no
\* negative gallons, no negative cost and no negative tank capacity.
C27_Original ==
  \A k \in 1..Len(responses) :
    LET r == responses[k]
    IN  /\ r.status \in {200, 400}
        /\ r.status = 400 => r.body.error \in StructuredErrors
        /\ r.status = 200 =>
             /\ r.tank_capacity_gallons >= 0
             /\ r.total_money_spent >= 0
             /\ \A e \in 1..Len(r.stops) :
                  r.stops[e].gallons_bought >= 0 /\ r.stops[e].cost >= 0

====
